---- MODULE Spec2Model ----
(***************************************************************************)
(* Adaptive Selector Resolution Engine of vero-agent.                      *)
(*                                                                         *)
(*   Spec         LiveExecutionAgent.execute_steps with its pause, resume, *)
(*                stop and correction controls, writing outcomes through   *)
(*                LearningLoop into the Ledger (ExecutionStore) and the    *)
(*                Similarity Index (SemanticElementSearch).                *)
(*   SpecLedger   ExecutionStore.record_interaction as called by           *)
(*                LearningLoop.record_*, and LearningLoop.decide_selector. *)
(*   SpecWeights  AdaptiveElementMatcher._adjust_weights.                  *)
(*                                                                         *)
(* execute_steps is an asyncio coroutine: it runs without interruption     *)
(* from one suspension point (an await that really suspends) to the next,  *)
(* and the controls run between two such segments.  pc names the           *)
(* suspension point the coroutine is parked at.                            *)
(***************************************************************************)
EXTENDS Integers, Sequences, FiniteSets, TLC

\* ------------------------------------------------------------------ bounds

\* Longest step list submitted to execute_steps.
MaxSteps == 2
\* Largest max_retries the agent is constructed with.
MaxRetriesArg == 2
\* Recorded interactions per behaviour of SpecLedger.
MaxRecords == 3
\* Feedback events per behaviour of SpecWeights.
MaxFeedback == 3
\* Truthy corrections supplied per behaviour of Spec.
MaxCorrections == 1
\* Storage errors per behaviour of Spec.
MaxFaults == 1

\* ------------------------------------------------------- program constants

\* _request_correction: for _ in range(60)
CorrectionPolls == 60
\* get_best_selector_for_element: total_attempts >= 3
MinAttempts == 3

None == "None"

\* ------------------------------------------------------------ small helpers

Min(a, b) == IF a <= b THEN a ELSE b
Max(a, b) == IF a >= b THEN a ELSE b

\* Python truthiness of an Optional[str].
Truthy(s) == s # None /\ s # ""

\* A ratio n/d (d > 0) is the pair <<n, d>>; Python floats are modelled exactly.
Ratio(n, d) == <<n, d>>
RatGeq(a, b) == a[1] * b[2] >= b[1] * a[2]
RatGt(a, b) == a[1] * b[2] > b[1] * a[2]
RatEq(a, b) == a[1] * b[2] = b[1] * a[2]
Half == Ratio(1, 2)

\* A Python dict is a function; d.get(k, default).
Get(d, k, default) == IF k \in DOMAIN d THEN d[k] ELSE default
EmptyDict == [k \in {} |-> None]

\* A text is the first len characters of the character stream named base, so
\* that text[:n] is computed exactly: two texts over one base agree on every
\* position both have.  The empty string is Text("", 0).
Text(base, len) == [base |-> IF len = 0 THEN "" ELSE base, len |-> len]
EmptyText == Text("", 0)
Prefix(t, n) == Text(t.base, Min(t.len, n))

\* --------------------------------------------------------------- fingerprints

\* The data string that is hashed is kept as its three parts: the tag, the
\* text prefix, and the rest as a string; md5(...)[:12] is taken to be
\* injective on the data strings of the model.
StoreHashAttrs == <<"data-testid", "data-test-id", "data-test", "id", "name", "aria-label">>
IndexHashAttrs == <<"data-testid", "data-test-id", "id", "name", "aria-label">>

\* The "attr=value:" parts for the attributes of names that are taken: those
\* with a truthy value (attrs.get(attr)) or those present (attr in attrs).
RECURSIVE AttrData(_, _, _)
AttrData(attrs, names, truthy_only) ==
    IF names = <<>> THEN ""
    ELSE LET a == Head(names)
             taken == IF truthy_only THEN Get(attrs, a, "") # "" ELSE a \in DOMAIN attrs
         IN  (IF taken THEN a \o "=" \o attrs[a] \o ":" ELSE "") \o AttrData(attrs, Tail(names), truthy_only)

\* execution_store.compute_element_hash
compute_element_hash(element) ==
    << Get(element, "tag_name", ""),
       Prefix(Get(element, "text", Get(element, "text_content", EmptyText)), 50),
       AttrData(Get(element, "attributes", EmptyDict), StoreHashAttrs, FALSE) >>

\* SemanticElementSearch._compute_element_hash
index_element_hash(element) ==
    << Get(element, "tag_name", Get(element, "tagName", "")),
       Prefix(Get(element, "text", Get(element, "text_content", EmptyText)), 50),
       AttrData(Get(element, "attributes", EmptyDict), IndexHashAttrs, TRUE) >>

\* IntelligentSelectorGenerator._compute_element_hash
generator_element_hash(element) ==
    << Get(element, "tag_name", "None"),
       Prefix(Get(element, "text", EmptyText), 50),
       Get(Get(element, "attributes", EmptyDict), "class", "") >>

\* --------------------------------------------------------------- the Ledger

\* urlparse(page_url): netloc + path, the query dropped.
\* A page URL of the model is <<netloc, path, query>>.
UrlPattern(page_url) == <<page_url[1], page_url[2]>>

\* A statistic written with INSERT OR REPLACE: the row of a pair is replaced,
\* not incremented.
replace_selector_stats(stats, element_hash, selector, success) ==
    LET key == <<element_hash, selector>>
        row == [total_attempts |-> 1, successes |-> IF success THEN 1 ELSE 0, success_rate |-> Half]
    IN  IF key \in DOMAIN stats THEN [stats EXCEPT ![key] = row] ELSE stats @@ (key :> row)

\* ExecutionStore._update_selector_stats: the INSERT names no success_rate, so
\* a new row keeps the column default 0.5; the DO UPDATE branch reads the old
\* row on its right-hand sides.
update_selector_stats(stats, element_hash, selector, success) ==
    LET key == <<element_hash, selector>>
        b == IF success THEN 1 ELSE 0
    IN  IF key \notin DOMAIN stats
        THEN stats @@ (key :> [total_attempts |-> 1, successes |-> b,
                               success_rate |-> Half])
        ELSE [stats EXCEPT ![key] =
                 [total_attempts |-> @.total_attempts + 1,
                  successes |-> @.successes + b,
                  success_rate |-> Ratio(@.successes + b, @.total_attempts + 1)]]

\* ExecutionStore._save_correction_mapping: correction_mappings has no
\* uniqueness constraint but its AUTOINCREMENT id, so ON CONFLICT never
\* applies and every call inserts a row with times_applied = 1.
save_correction_mapping(mappings, original_step, corrected_selector, correction_text, page_url) ==
    Append(mappings, [original_step |-> original_step,
                      corrected_selector |-> corrected_selector,
                      correction_text |-> correction_text,
                      page_url_pattern |-> UrlPattern(page_url),
                      times_applied |-> 1])

\* ------------------------------------------------------------------- state

VARIABLES
    \* LiveExecutionAgent
    state,                \* context.state
    pause_event,          \* _pause_event.is_set()
    stop_requested,       \* _stop_requested
    correction_response,  \* _correction_response
    max_retries,          \* constructor argument
    step_delay,           \* step_delay_ms > 0
    learning,             \* _learning_loop is not None
    steps,                \* context.steps
    results,              \* context.results
    \* the execute_steps coroutine
    pc,                   \* where the coroutine is parked
    i,                    \* loop index of execute_steps
    attempt,              \* loop index of _execute_single_step
    cur_step,             \* step text of the innermost _execute_single_step
    polls,                \* sleeps started by _request_correction
    waiter_woken,         \* the future of _pause_event.wait() has its result
    \* ExecutionStore (the Ledger)
    sessions, interactions, selector_stats, correction_mappings,
    \* SemanticElementSearch (the Similarity Index)
    element_embeddings, embedding_cache,
    \* IntelligentSelectorGenerator
    selector_history,
    \* LearningLoop
    current_session, session_interactions,
    \* AdaptiveElementMatcher: weights[k] / weight_den
    weights, weight_den,
    \* what the latest decide_selector call returned, if nothing was recorded since
    decision,
    \* the connections of two more sessions on the Ledger's database file
    txn,
    \* datetime.now(): what the next reading of the clock returns
    clock,
    \* what the latest generate_selectors call was given and returned
    generated,
    \* what the latest _find_element call met and returned
    located,
    \* RetryExecutor: the latest run_until_pass call
    outer,
    \* ConnectionManager, for one transport session id: connected: the id is
    \* in active_connections; agents: the agent registered for the id, as its
    \* position in task, 0 for none; task: for every agent created so far
    \* what its execute() task is doing
    server,
    \* observation only: what has happened so far
    obs

agent_vars == <<state, pause_event, stop_requested, correction_response, max_retries, step_delay, learning, steps, results, pc, i, attempt, cur_step, polls, waiter_woken>>
ledger_vars == <<sessions, interactions, selector_stats, correction_mappings>>
index_vars == <<element_embeddings, embedding_cache>>
loop_vars == <<current_session, session_interactions, selector_history>>
weight_vars == <<weights, weight_den>>
\* what execute_steps and its controls never write
passive_vars == <<weights, weight_den, decision, txn, clock, generated, located, outer, server>>
vars == <<agent_vars, ledger_vars, index_vars, loop_vars, weight_vars, decision, txn, clock, generated, located, outer, server, obs>>

\* ------------------------------------------------------- the learning loop

\* What the storage engine does to one LearningLoop call: "ok", or an I/O
\* error raised by the named statement.  "ledger": ExecutionStore raises before
\* its commit; "index": index_element raises.
\* (SQLite implements no UPSERT on a virtual table, so the statement
\* INSERT INTO element_fts ... ON CONFLICT DO NOTHING of index_element is an
\* "index" error wherever the element is not in the embedding cache.)
RecordFaults == {"ok", "ledger", "index"}

\* ExecutionStore.record_interaction: the insert, the statistic upsert and the
\* correction mapping are committed together.
store_interactions(inter) == Append(interactions, inter)

store_stats(inter) == update_selector_stats(selector_stats, inter.element_hash, inter.selector_used, inter.outcome = "success")

store_mappings(inter) ==
    IF Truthy(inter.user_correction) /\ Truthy(inter.corrected_selector)
    THEN save_correction_mapping(correction_mappings, inter.step_text, inter.corrected_selector, inter.user_correction, inter.page_url)
    ELSE correction_mappings

\* SemanticElementSearch.index_element: nothing is done for a fingerprint in
\* the embedding cache; otherwise the entry is upserted (selector replaced,
\* counters kept) and the fingerprint cached.
index_element_entries(element, selector, page_url) ==
    LET h == index_element_hash(element)
    IN  IF h \in embedding_cache THEN element_embeddings
        ELSE IF h \in DOMAIN element_embeddings
        THEN [element_embeddings EXCEPT ![h].selector = selector]
        ELSE element_embeddings @@ (h :> [selector |-> selector, element |-> element, page_url |-> page_url, success_count |-> 0, failure_count |-> 0])

\* SemanticElementSearch.record_outcome: UPDATE ... WHERE element_hash = ?
record_outcome(entries, element_hash, success) ==
    IF element_hash \notin DOMAIN entries THEN entries
    ELSE IF success THEN [entries EXCEPT ![element_hash].success_count = @ + 1]
    ELSE [entries EXCEPT ![element_hash].failure_count = @ + 1]

\* IntelligentSelectorGenerator.update_history
update_history(history, element_hash, selector, success) ==
    LET key == <<element_hash, selector>>
        old == IF key \in DOMAIN history THEN history[key] ELSE [attempts |-> 0, successes |-> 0]
        new == [attempts |-> old.attempts + 1, successes |-> old.successes + (IF success THEN 1 ELSE 0)]
    IN  IF key \in DOMAIN history THEN [history EXCEPT ![key] = new] ELSE history @@ (key :> new)

\* A recording whose insert is committed on its own: an error raised later
\* in ExecutionStore.record_interaction leaves the record without its
\* statistic.
record_interaction_autocommit(element, page_url, selector_used, step_text, action_type, outcome, user_correction, fault) ==
    LET inter == [element_hash |-> compute_element_hash(element), selector_used |-> selector_used,
                  step_text |-> step_text, action_type |-> action_type,
                  page_url |-> page_url, outcome |-> outcome,
                  user_correction |-> user_correction,
                  corrected_selector |-> IF outcome = "corrected" THEN selector_used ELSE None,
                  session |-> current_session, timestamp |-> clock]
        stored == current_session # 0 /\ fault # "ledger"
    IN  /\ interactions' = IF current_session # 0 THEN store_interactions(inter) ELSE interactions
        /\ selector_stats' = IF stored THEN store_stats(inter) ELSE selector_stats
        /\ correction_mappings' = IF stored THEN store_mappings(inter) ELSE correction_mappings
        /\ session_interactions' = IF stored THEN Append(session_interactions, outcome) ELSE session_interactions
        /\ UNCHANGED <<element_embeddings, embedding_cache, selector_history>>

\* LearningLoop._record_interaction, as far as the fault lets it run.
LearningLoop_record_interaction(element, page_url, selector_used, step_text, action_type, outcome, user_correction, fault) ==
    LET h == compute_element_hash(element)
        inter == [element_hash |-> h, selector_used |-> selector_used,
                  step_text |-> step_text, action_type |-> action_type,
                  page_url |-> page_url, outcome |-> outcome,
                  user_correction |-> user_correction,
                  corrected_selector |-> IF outcome = "corrected" THEN selector_used ELSE None,
                  session |-> current_session, timestamp |-> clock]
        good == outcome \in {"success", "corrected"}
        stored == current_session # 0 /\ fault # "ledger"
        indexed == fault = "ok"
    IN  /\ interactions' = IF stored THEN store_interactions(inter) ELSE interactions
        /\ selector_stats' = IF stored THEN store_stats(inter) ELSE selector_stats
        /\ correction_mappings' = IF stored THEN store_mappings(inter) ELSE correction_mappings
        /\ session_interactions' = IF stored THEN Append(session_interactions, outcome) ELSE session_interactions
        /\ element_embeddings' = IF indexed THEN record_outcome(index_element_entries(element, selector_used, page_url), h, good)
                                 ELSE element_embeddings
        /\ embedding_cache' = IF indexed THEN embedding_cache \cup {index_element_hash(element)} ELSE embedding_cache
        /\ selector_history' = IF indexed THEN update_history(selector_history, h, selector_used, good) ELSE selector_history

\* LearningLoop.start_session / ExecutionStore.create_session: the sessions
\* table with the new row; the new session's id is its position.
start_session(sess, total_steps) ==
    Append(sess, [total_steps |-> total_steps, ended |-> FALSE, successful_steps |-> 0, failed_steps |-> 0, corrected_steps |-> 0,
                  started_at |-> clock, present |-> TRUE])

Count(seq, v) == Cardinality({k \in 1..Len(seq) : seq[k] = v})

\* LearningLoop.end_session / ExecutionStore.update_session: the sessions
\* table with session cur finalised from the session's interactions si
\* (an UPDATE ... WHERE id = ?, which finds no row once the row is deleted).
end_session(sess, cur, si) ==
    IF ~sess[cur].present THEN sess ELSE
    [sess EXCEPT ![cur] = [@ EXCEPT !.ended = TRUE,
                                    !.successful_steps = Count(si, "success"),
                                    !.failed_steps = Count(si, "failure"),
                                    !.corrected_steps = Count(si, "corrected")]]

\* ---------------------------------------------------------- decide_selector

RatAdd(a, b) == Ratio(a[1] * b[2] + b[1] * a[2], a[2] * b[2])
RatMul(a, b) == Ratio(a[1] * b[1], a[2] * b[2])

\* LearningConfig
similarity_threshold == Ratio(7, 10)
success_rate_threshold == Ratio(8, 10)

\* The characters of a text; a text longer than the name of its stream is
\* written as the name and its length.
Str(t) == IF t.len = Len(t.base) THEN t.base ELSE t.base \o "..." \o ToString(t.len)

\* x LIKE '%' || step_text[:30] || '%' on the step texts of the model, all
\* shorter than 30 characters: x contains the pattern.
ProperInfixes == {<<"Click the Login button again", "Click the Login button">>}
Like(x, pattern) == x = pattern \/ <<x, pattern>> \in ProperInfixes

NoCorrection == [found |-> FALSE, selector |-> None, correction |-> None, times_used |-> 0]

\* A lookup that knows the exact match only.
find_correction_exact(mappings, step_text, page_url) ==
    LET exact == {m \in 1..Len(mappings) : mappings[m].original_step = step_text}
        m == CHOOSE m \in exact : \A n \in exact : mappings[m].times_applied >= mappings[n].times_applied
    IN  IF exact = {} THEN NoCorrection
        ELSE [found |-> TRUE, selector |-> mappings[m].corrected_selector, correction |-> mappings[m].correction_text, times_used |-> mappings[m].times_applied]

\* ExecutionStore.find_correction_for_step: the exact match with the most
\* applications (the latest of them), else a LIKE match with the most
\* applications (which of several is the database's choice).  page_url is
\* not used.
find_correction_for_step(mappings, step_text, page_url) ==
    LET exact == {m \in 1..Len(mappings) : mappings[m].original_step = step_text}
        fuzzy == {m \in 1..Len(mappings) : Like(mappings[m].original_step, step_text)}
        first(S) == CHOOSE m \in S : \A n \in S : \/ mappings[m].times_applied > mappings[n].times_applied
                                                  \/ mappings[m].times_applied = mappings[n].times_applied /\ m >= n
        row(m) == [found |-> TRUE, selector |-> mappings[m].corrected_selector, correction |-> mappings[m].correction_text, times_used |-> mappings[m].times_applied]
    IN  IF exact # {} THEN row(first(exact))
        ELSE IF fuzzy # {} THEN row(first(fuzzy))
        ELSE NoCorrection

NoBest == [found |-> FALSE, selector |-> None, success_rate |-> Ratio(0, 1)]

\* A lookup that takes every row of the fingerprint, whatever its attempts.
get_best_selector_any_attempts(stats, element_hash) ==
    LET rows == {k \in DOMAIN stats : k[1] = element_hash}
        better(x, y) == \/ RatGt(stats[x].success_rate, stats[y].success_rate)
                        \/ RatEq(stats[x].success_rate, stats[y].success_rate) /\ stats[x].total_attempts >= stats[y].total_attempts
        best == CHOOSE k \in rows : \A n \in rows : better(k, n)
    IN  IF rows = {} THEN NoBest
        ELSE [found |-> TRUE, selector |-> best[2], success_rate |-> stats[best].success_rate]

\* ExecutionStore.get_best_selector_for_element: among the rows of the
\* fingerprint with total_attempts >= 3, the highest success_rate, then the
\* most attempts (which of several such rows is the database's choice).
get_best_selector_for_element(stats, element_hash) ==
    LET rows == {k \in DOMAIN stats : k[1] = element_hash /\ stats[k].total_attempts >= MinAttempts}
        better(x, y) == \/ RatGt(stats[x].success_rate, stats[y].success_rate)
                        \/ RatEq(stats[x].success_rate, stats[y].success_rate) /\ stats[x].total_attempts >= stats[y].total_attempts
        best == CHOOSE k \in rows : \A n \in rows : better(k, n)
    IN  IF rows = {} THEN NoBest
        ELSE [found |-> TRUE, selector |-> best[2], success_rate |-> stats[best].success_rate]

\* A list sorted by score, highest first, equal scores in their old order
\* (list.sort(key=..., reverse=True) is stable).
RECURSIVE InsertByScore(_, _)
InsertByScore(sorted, c) ==
    IF sorted = <<>> THEN <<c>>
    ELSE IF RatGeq(Head(sorted).score, c.score) THEN <<Head(sorted)>> \o InsertByScore(Tail(sorted), c)
    ELSE <<c>> \o sorted

RECURSIVE SortByScore(_)
SortByScore(list) == IF list = <<>> THEN <<>> ELSE InsertByScore(SortByScore(SubSeq(list, 1, Len(list) - 1)), list[Len(list)])

\* The first element of a list with the highest score (max(list, key=...)).
RECURSIVE FirstMax(_)
FirstMax(list) ==
    IF Len(list) = 1 THEN list[1]
    ELSE LET rest == FirstMax(Tail(list)) IN IF RatGeq(Head(list).score, rest.score) THEN Head(list) ELSE rest

RECURSIVE SetToSeq(_)
SetToSeq(S) == IF S = {} THEN <<>> ELSE LET x == CHOOSE y \in S : TRUE IN <<x>> \o SetToSeq(S \ {x})

TestIdAttrs == <<"data-testid", "data-test-id", "data-test", "data-cy", "data-qa">>

\* IntelligentSelectorGenerator._detect_role: the explicit role, else the
\* role of the tag (the tags of the model).
detect_role(element) ==
    LET explicit == Get(element.attributes, "role", "")
    IN  IF explicit # "" THEN explicit
        ELSE CASE element.tag_name = "button" -> "button"
               [] element.tag_name = "a" -> "link"
               [] OTHER -> None

\* IntelligentSelectorGenerator._get_accessible_name: aria-label, else the
\* visible text below 50 characters, else title.
accessible_name(element) ==
    IF Get(element.attributes, "aria-label", "") # "" THEN element.attributes["aria-label"]
    ELSE IF element.text.len > 0 /\ element.text.len < 50 THEN Str(element.text)
    ELSE IF Get(element.attributes, "title", "") # "" THEN element.attributes["title"]
    ELSE None

\* SelectorCandidate: stability_score defaults to 1.0.
Candidate(selector, strategy, score) == [selector |-> selector, strategy |-> strategy, score |-> score, stability_score |-> Ratio(1, 1)]

\* IntelligentSelectorGenerator._extract_meaningful_classes on the class
\* strings of the model, each a single class name: "btn-primary" is kept
\* (and semantic), "css-1q2w3e" is excluded as generated (^css-).
extract_meaningful_classes(class_string) == IF class_string = "btn-primary" THEN <<class_string>> ELSE <<>>

\* A generator that lists the test-id candidates after the others.
generate_selectors_test_id_last(history, element) ==
    LET attrs == element.attributes
        ids == SelectSeq(TestIdAttrs, LAMBDA a : a \in DOMAIN attrs)
        test_id == [k \in 1..Len(ids) |-> Candidate("[" \o ids[k] \o "=\"" \o attrs[ids[k]] \o "\"]", "test_id", Ratio(90, 100))]
        role == detect_role(element)
        name == accessible_name(element)
        role_name == IF Truthy(role) /\ Truthy(name) THEN <<Candidate(role \o "[name=\"" \o name \o "\"]", "role_name", Ratio(90, 100))>> ELSE <<>>
    IN  SortByScore(role_name \o test_id)

\* IntelligentSelectorGenerator.generate_selectors(element), no page
\* elements given.  The elements of the model carry none of label,
\* placeholder, alt, title, name, type, href, so strategies 3-6 and 10 add
\* no candidate.  The history is looked up under the generator's own
\* fingerprint.
generate_selectors(history, element) ==
    LET attrs == element.attributes
        ids == SelectSeq(TestIdAttrs, LAMBDA a : a \in DOMAIN attrs)
        test_id == [k \in 1..Len(ids) |-> Candidate("[" \o ids[k] \o "=\"" \o attrs[ids[k]] \o "\"]", "test_id", Ratio(95, 100))]
        role == detect_role(element)
        name == accessible_name(element)
        role_name == IF Truthy(role) /\ Truthy(name) THEN <<Candidate(role \o "[name=\"" \o name \o "\"]", "role_name", Ratio(90, 100))>> ELSE <<>>
        text == element.text
        by_text == IF text.len > 0 /\ text.len < 100
                   THEN IF text.len < 30 THEN <<Candidate("text=\"" \o Str(text) \o "\"", "text", Ratio(75, 100))>>
                        ELSE <<Candidate("text=" \o Str(Prefix(text, 30)), "text", Ratio(65, 100))>>
                   ELSE <<>>
        css_id == IF Get(attrs, "id", "") # "" THEN <<Candidate("#" \o attrs["id"], "css_id", Ratio(70, 100))>> ELSE <<>>
        classes == extract_meaningful_classes(Get(attrs, "class", ""))
        css_class == IF classes # <<>> THEN <<Candidate("." \o classes[1], "css_class", Ratio(60, 100))>> ELSE <<>>
        candidates == test_id \o role_name \o by_text \o css_id \o css_class
        h == generator_element_hash(element)
        scored(c) == IF <<h, c.selector>> \in DOMAIN history
                     THEN LET success_rate == Ratio(history[<<h, c.selector>>].successes, history[<<h, c.selector>>].attempts)
                          IN  [c EXCEPT !.stability_score = success_rate,
                                        !.score = RatAdd(RatMul(@, Ratio(7, 10)), RatMul(success_rate, Ratio(3, 10)))]
                     ELSE c
    IN  SortByScore([k \in 1..Len(candidates) |-> scored(candidates[k])])

\* SemanticElementSearch._build_element_description, as the tuple of its
\* parts (the elements of the model have no role beside the tag, and of the
\* attributes it names only aria-label and the test ids).
element_description(element) ==
    << Get(element, "tag_name", Get(element, "tagName", "element")),
       Prefix(Get(element, "text", Get(element, "text_content", EmptyText)), 100),
       Get(Get(element, "attributes", EmptyDict), "aria-label", ""),
       Get(Get(element, "attributes", EmptyDict), "data-testid", "") >>

TopK == 3

\* SemanticElementSearch.find_similar(element, top_k=3, min_similarity): the
\* cosine similarity of two embeddings is 1 for one description and sim, a
\* value of the embedding provider, for two different ones.  The rows come
\* in the database's order.
find_similar(entries, element, min_similarity, sim) ==
    LET d == element_description(element)
        similarity(h) == IF element_description(entries[h].element) = d THEN Ratio(1, 1) ELSE sim
        rate(h) == IF entries[h].success_count + entries[h].failure_count > 0
                   THEN Ratio(entries[h].success_count, entries[h].success_count + entries[h].failure_count)
                   ELSE Half
        hits == SetToSeq({h \in DOMAIN entries : RatGeq(similarity(h), min_similarity)})
        found == [k \in 1..Len(hits) |->
                       [selector |-> entries[hits[k]].selector, similarity_score |-> similarity(hits[k]), success_rate |-> rate(hits[k]),
                        score |-> RatAdd(RatMul(similarity(hits[k]), Ratio(7, 10)), RatMul(rate(hits[k]), Ratio(3, 10)))]]
        sorted == SortByScore(found)
    IN  SubSeq(sorted, 1, Min(TopK, Len(sorted)))

\* LearningLoop.decide_selector
decide_selector(element, step_text, page_url, sim) ==
    LET element_hash == compute_element_hash(element)
        correction == find_correction_for_step(correction_mappings, step_text, page_url)
        historical_best == get_best_selector_for_element(selector_stats, element_hash)
        trusted == historical_best.found /\ RatGeq(historical_best.success_rate, success_rate_threshold)
        alternatives1 == IF historical_best.found THEN <<[selector |-> historical_best.selector, score |-> historical_best.success_rate]>> ELSE <<>>
        similar_elements == find_similar(element_embeddings, element, similarity_threshold, sim)
        good == SelectSeq(similar_elements, LAMBDA x : RatGeq(x.success_rate, success_rate_threshold))
        alternatives == alternatives1 \o [k \in 1..Len(good) |-> [selector |-> good[k].selector, score |-> RatMul(good[k].similarity_score, good[k].success_rate)]]
        generated_candidates == generate_selectors(selector_history, element)
        semantic == [k \in 1..Len(similar_elements) |->
                        [selector |-> similar_elements[k].selector,
                         score |-> RatAdd(RatMul(similar_elements[k].similarity_score, Ratio(6, 10)), RatMul(similar_elements[k].success_rate, Ratio(4, 10)))]]
        text == Prefix(Get(element, "text", Get(element, "text_content", EmptyText)), 30)
        tag == Get(element, "tag_name", Get(element, "tagName", "element"))
        result(selector, strategy, confidence, source, alts) ==
            [selector |-> selector, strategy |-> strategy, confidence |-> confidence, source |-> source,
             alternatives |-> alts, element |-> element, step_text |-> step_text]
        pairs(list) == [k \in 1..Len(list) |-> [selector |-> list[k].selector, score |-> list[k].score]]
    IN  IF correction.found /\ correction.times_used >= 2
        THEN result(correction.selector, "correction", Ratio(95, 100), "learned_correction", <<>>)
        ELSE IF trusted
        THEN result(historical_best.selector, "historical", historical_best.success_rate, "history", <<>>)
        ELSE IF generated_candidates # <<>>
        THEN IF semantic # <<>> /\ RatGt(FirstMax(semantic).score, Ratio(0, 1)) /\ RatGt(FirstMax(semantic).score, generated_candidates[1].score)
             THEN result(FirstMax(semantic).selector, "semantic", FirstMax(semantic).score, "semantic_match", pairs(SubSeq(generated_candidates, 1, Min(3, Len(generated_candidates)))))
             ELSE result(generated_candidates[1].selector, generated_candidates[1].strategy, generated_candidates[1].score, "generated", pairs(SubSeq(generated_candidates, 2, Min(4, Len(generated_candidates)))))
        ELSE IF alternatives # <<>>
        THEN result(FirstMax(alternatives).selector, "fallback", FirstMax(alternatives).score, "alternative", alternatives)
        ELSE result(IF text.len > 0 THEN tag \o ":has-text(\"" \o Str(text) \o "\")" ELSE tag, "text_fallback", Ratio(3, 10), "fallback", <<>>)

\* ------------------------------------------------------ LiveExecutionAgent

\* Step texts submitted to execute_steps, and corrections supplied by the user.
StepTexts == {"Click the Login button", "Go to home"}
Corrections == {"click the Sign In button"}
StepLists == UNION {[1..n -> StepTexts] : n \in 0..MaxSteps} \cup {<<"Frobnicate the widget">>, <<"Frobnicate the widget", "Click the Login button">>}

\* _parse_step on the step texts of the model: the first pattern that
\* matches; no pattern matches "Frobnicate the widget", and the answer of
\* the completion service for it names no action type, or is not JSON, or
\* the call raises: _ai_parse_step gives UNKNOWN with no target.
parse_step(step) ==
    CASE step = "Click the Login button" -> [action_type |-> "click", target |-> Text("Login", 5)]
      [] step = "click the Sign In button" -> [action_type |-> "click", target |-> Text("Sign In", 7)]
      [] step = "Go to home" -> [action_type |-> "navigate", target |-> EmptyText]
      [] step = "Frobnicate the widget" -> [action_type |-> "unknown", target |-> EmptyText]

\* The page the run is on: netloc, path, query.
PageUrl == <<"app.test", "/login", "">>

\* _try_common_selectors: the ElementMatch of the first role strategy
\* (tag_name and attributes keep their defaults).
ElementMatch(target) == [found |-> TRUE, selector |-> "role=button[name=\"" \o target.base \o "\"]", text |-> target, tag_name |-> "", attributes |-> EmptyDict]

\* element = None
NoElement == [found |-> FALSE, selector |-> "", text |-> EmptyText, tag_name |-> "", attributes |-> EmptyDict]

\* _record_to_learning_loop: the element dict and selector handed on.
element_dict(element) == IF ~element.found THEN EmptyDict ELSE [tag_name |-> element.tag_name, text |-> element.text, attributes |-> element.attributes]
element_selector(element) == IF ~element.found THEN "" ELSE element.selector

NoRecord == UNCHANGED <<interactions, selector_stats, correction_mappings, session_interactions, element_embeddings, embedding_cache, selector_history>>

\* A step is in flight: between the pause gate and the return of
\* _execute_single_step.
StepInFlight == pc \in {"title", "attempt", "wait_correction"}

AllSucceeded(res) == \A k \in 1..Len(res) : res[k].success

\* The end of execute_steps: the final state, then end_session.
\* sess and cur are the sessions table and the current session as the
\* action has left them so far; session_interactions' is read.
Finish(res, o, sess, cur, fs) ==
    LET final == IF AllSucceeded(res) THEN "completed" ELSE "failed"
    IN  /\ state' = final
        /\ UNCHANGED <<waiter_woken, attempt, cur_step, polls>>
        /\ fs # "ok" => o.faults < MaxFaults
        /\ IF learning /\ cur # 0
           THEN IF fs = "ok"
                THEN /\ sessions' = end_session(sess, cur, session_interactions')
                     /\ current_session' = 0
                     /\ pc' = "done"
                     /\ obs' = [o EXCEPT !.final_state = final]
                ELSE /\ sessions' = sess
                     /\ current_session' = cur
                     /\ pc' = "raised"
                     /\ obs' = [o EXCEPT !.final_state = final, !.faults = @ + 1, !.raised_in = "end_session"]
           ELSE /\ sessions' = sess
                /\ current_session' = cur
                /\ pc' = "done"
                /\ obs' = [o EXCEPT !.final_state = final]

\* The head of the for loop for index idx: the stop check, then the pause
\* gate.  stop_requested' and pause_event' are read.
LoopHeader(idx, res, st, o, sess, cur, fs) ==
    /\ results' = res
    /\ i' = idx
    /\ IF idx >= Len(steps) \/ stop_requested'
       THEN Finish(res, o, sess, cur, fs)
       ELSE /\ state' = st
            /\ sessions' = sess
            /\ current_session' = cur
            /\ UNCHANGED <<attempt, cur_step, polls>>
            /\ IF pause_event'
               THEN /\ pc' = "title"
                    /\ obs' = [o EXCEPT !.nstarted = @ + 1]
                    /\ UNCHANGED waiter_woken
               ELSE /\ pc' = "gate"
                    /\ obs' = o
                    /\ waiter_woken' = FALSE

\* After _execute_single_step returned: the result is appended, then the
\* delay between steps (a suspension point) or the next loop head at once.
AfterStep(result, st, o, fs) ==
    IF step_delay
    THEN /\ results' = Append(results, result)
         /\ pc' = "delay"
         /\ state' = st
         /\ obs' = o
         /\ UNCHANGED <<i, sessions, current_session, waiter_woken, attempt, cur_step, polls>>
    ELSE LoopHeader(i + 1, Append(results, result), st, o, sessions, current_session, fs)

\* A StepResult whose failure reports the loop index of the last attempt.
StepResultLoopIndex(step, success, retries, o, lw, iu) ==
    [step_index |-> i, step_text |-> step, success |-> success, retries |-> IF success THEN retries ELSE Max(retries - 1, 0),
     original_step |-> o.orig_step, corrected |-> o.step_corrections > 0,
     browser_failed |-> o.browser_failed, storage_failed |-> o.storage_failed,
     ledger_written |-> lw, index_updated |-> iu, failed_attempts |-> o.nfailed]

\* StepResult, with what the learning loop took of the step's final outcome.
StepResult(step, success, retries, o, lw, iu) ==
    [step_index |-> i, step_text |-> step, success |-> success, retries |-> retries,
     original_step |-> o.orig_step, corrected |-> o.step_corrections > 0,
     browser_failed |-> o.browser_failed, storage_failed |-> o.storage_failed,
     ledger_written |-> lw, index_updated |-> iu, failed_attempts |-> o.nfailed]

ctl_vars == <<pause_event, stop_requested, correction_response>>
config_vars == <<max_retries, step_delay, learning>>

InitObs == [nstarted |-> 0, final_state |-> None, gate_stop |-> -1, paused_at |-> -1,
            nprovided |-> 0, orig_step |-> None, step_corrections |-> 0, acted |-> FALSE,
            reran |-> FALSE, browser_failed |-> FALSE, storage_failed |-> FALSE, faults |-> 0, raised_in |-> None, nrecorded |-> 0, nfeedback |-> 0, nfailed |-> 0, nattempts |-> 0,
            cleaned |-> -1, removed |-> 0, stopping |-> FALSE]

InitLedger ==
    /\ sessions = <<>>
    /\ interactions = <<>>
    /\ selector_stats = [k \in {} |-> None]
    /\ correction_mappings = <<>>
    /\ element_embeddings = [k \in {} |-> None]
    /\ embedding_cache = {}
    /\ selector_history = [k \in {} |-> None]
    /\ current_session = 0
    /\ session_interactions = <<>>

\* AdaptiveElementMatcher.__init__: history 0.4, semantic 0.3, text 0.2,
\* position 0.1, as numerators over weight_den.
InitWeights ==
    /\ weights = [history_match |-> 4, semantic_similarity |-> 3, text_match |-> 2, position_heuristic |-> 1]
    /\ weight_den = 10

\* LiveExecutionAgent.__init__
InitAgent ==
    /\ state = "idle"
    /\ pause_event = TRUE
    /\ stop_requested = FALSE
    /\ correction_response = None
    /\ max_retries \in 0..MaxRetriesArg
    /\ step_delay \in BOOLEAN
    /\ learning \in BOOLEAN
    /\ steps = <<>>
    /\ results = <<>>
    /\ pc = "idle"
    /\ i = 0
    /\ attempt = 0
    /\ cur_step = None
    /\ polls = 0
    /\ waiter_woken = FALSE

NoDecision == [selector |-> None, strategy |-> None, confidence |-> Ratio(0, 1), source |-> None, alternatives |-> <<>>, element |-> EmptyDict, step_text |-> None]

\* No other connection is open on the database file.
Writers == {1, 2}
NoInteraction == [element_hash |-> <<>>, selector_used |-> "", step_text |-> None, action_type |-> None,
                  page_url |-> PageUrl, outcome |-> None, user_correction |-> None, corrected_selector |-> None, session |-> 0, timestamp |-> 0]
InitTxn == [writer |-> 0, pc |-> [w \in Writers |-> "idle"], session |-> [w \in Writers |-> 0],
            pending |-> [w \in Writers |-> NoInteraction], overlapped |-> FALSE]

\* No RetryExecutor yet.  tests: calls of _run_test so far; heals: calls of
\* _heal so far (current_code is vero_code healed that many times);
\* returned: <<>> or the tuple returned, its code given as a number of heals.
NoRun == [supplied |-> <<>>, max_retries |-> 0, pc |-> "none", tests |-> 0, heals |-> 0, healed_after_last |-> FALSE, returned |-> <<>>]

NoLocated == [called |-> FALSE, source |-> None, tried |-> <<>>, raised |-> None, confidence |-> Ratio(0, 1), on_page |-> None,
              common |-> None, screenshot |-> FALSE, vision |-> None, dom |-> None]

NoGenerated == [element |-> [tag_name |-> "", text |-> EmptyText, attributes |-> EmptyDict], candidates |-> <<>>, called |-> FALSE]

Init == InitAgent /\ InitLedger /\ InitWeights /\ decision = NoDecision /\ txn = InitTxn /\ clock = 0 /\ generated = NoGenerated /\ located = NoLocated /\ outer = NoRun /\ server = [connected |-> TRUE, agents |-> 0, task |-> <<>>] /\ obs = InitObs

\* execute_steps is called: start() launches the browser (suspension points).
ExecuteSteps(s) ==
    /\ pc = "idle"
    /\ steps' = s
    /\ pc' = "starting"
    /\ UNCHANGED <<state, ctl_vars, config_vars, results, i, attempt, cur_step, polls, waiter_woken>>
    /\ UNCHANGED <<ledger_vars, index_vars, loop_vars, passive_vars, obs>>

\* execute_steps from the end of start() to its first suspension point:
\* start_session, the fresh context, RUNNING, the stop flag reset, and the
\* head of the loop for step 0.
BeginRun(f0, fs) ==
    /\ pc = "starting"
    /\ f0 # "ok" => learning /\ obs.faults < MaxFaults
    /\ UNCHANGED <<pause_event, correction_response, config_vars, steps, passive_vars>>
    /\ UNCHANGED <<interactions, selector_stats, correction_mappings, element_embeddings, embedding_cache, selector_history>>
    /\ IF f0 # "ok"
       THEN /\ pc' = "raised"
            /\ state' = "idle"
            /\ obs' = [obs EXCEPT !.faults = @ + 1, !.raised_in = "start_session"]
            /\ UNCHANGED <<stop_requested, results, i, attempt, cur_step, polls, waiter_woken, sessions, current_session, session_interactions>>
       ELSE /\ stop_requested' = FALSE
            /\ session_interactions' = <<>>
            /\ IF learning
               THEN LoopHeader(0, <<>>, "running", obs, start_session(sessions, Len(steps)), Len(sessions) + 1, fs)
               ELSE LoopHeader(0, <<>>, "running", obs, sessions, current_session, fs)

\* _pause_event.wait() returns to the coroutine whose future was resolved.
GateWake ==
    /\ pc = "gate"
    /\ waiter_woken
    /\ pc' = "title"
    /\ obs' = [obs EXCEPT !.nstarted = @ + 1]
    /\ UNCHANGED <<state, ctl_vars, config_vars, steps, results, i, attempt, cur_step, polls, waiter_woken>>
    /\ UNCHANGED <<ledger_vars, index_vars, loop_vars, passive_vars>>

\* After page.title(): _execute_single_step is entered.  range(0) is empty,
\* so with max_retries = 0 the step fails at once.
StepStart(fs) ==
    /\ pc = "title"
    /\ UNCHANGED <<ctl_vars, config_vars, steps, passive_vars>>
    /\ NoRecord
    /\ LET step == steps[i + 1]
           o == [obs EXCEPT !.orig_step = step, !.step_corrections = 0, !.acted = FALSE, !.browser_failed = FALSE, !.storage_failed = FALSE, !.nfailed = 0, !.nattempts = 0]
       IN  IF max_retries = 0
           THEN AfterStep(StepResult(step, FALSE, max_retries, o, FALSE, FALSE), state, o, fs)
           ELSE /\ fs = "ok"
                /\ cur_step' = step
                /\ attempt' = 0
                /\ pc' = "attempt"
                /\ obs' = o
                /\ UNCHANGED <<state, results, i, polls, waiter_woken, sessions, current_session>>

\* A correction wait that begins with whatever the response slot holds.
request_correction_keeps_response(o) ==
    /\ state' = "waiting_for_correction"
    /\ UNCHANGED correction_response
    /\ pc' = "wait_correction"
    /\ polls' = 1
    /\ obs' = o
    /\ UNCHANGED <<results, i, attempt, cur_step, waiter_woken, sessions, current_session>>

\* _request_correction up to its first sleep: WAITING_FOR_CORRECTION, the
\* response slot emptied, the first check (of the slot just emptied).
request_correction(o) ==
    /\ state' = "waiting_for_correction"
    /\ correction_response' = None
    /\ pc' = "wait_correction"
    /\ polls' = 1
    /\ obs' = o
    /\ UNCHANGED <<results, i, attempt, cur_step, waiter_woken, sessions, current_session>>

\* One attempt of _execute_single_step, from its outcome on.  out is what the
\* attempt met: "ok" (the element, if any, was found and the action done),
\* "browser" (the page raised), "storage" (decide_selector raised inside
\* _try_common_selectors).  fr is the fault of record_success.
AttemptFinish(out, fr, fs) ==
    /\ pc = "attempt"
    /\ LET action == parse_step(cur_step)
           element == IF action.target.len > 0 THEN ElementMatch(action.target) ELSE NoElement
           records == out = "ok" /\ learning /\ element.found
           succeeded == out = "ok" /\ fr = "ok"
           o == [obs EXCEPT !.acted = @ \/ (out = "ok" /\ action.action_type # "unknown"),
                            !.reran = @ \/ (obs.acted /\ out = "ok"),
                            !.browser_failed = @ \/ out = "browser",
                            !.storage_failed = @ \/ out = "storage" \/ fr # "ok",
                            !.faults = IF out = "storage" \/ fr # "ok" THEN @ + 1 ELSE @,
                            !.nfailed = IF succeeded THEN @ ELSE @ + 1,
                            !.nattempts = @ + 1]
       IN  /\ out = "storage" => learning /\ action.target.len > 0
           /\ fr # "ok" => records
           /\ out = "storage" \/ fr # "ok" => obs.faults < MaxFaults
           /\ UNCHANGED <<pause_event, stop_requested, config_vars, steps, passive_vars>>
           /\ IF records
              THEN LearningLoop_record_interaction(element_dict(element), PageUrl, element_selector(element), cur_step, action.action_type, "success", None, fr)
              ELSE NoRecord
           /\ IF succeeded
              THEN /\ UNCHANGED correction_response
                   /\ AfterStep(StepResult(cur_step, TRUE, attempt, o, Len(interactions') > Len(interactions), element_embeddings' # element_embeddings), state, o, fs)
              ELSE /\ fs = "ok"
                   /\ IF attempt = max_retries - 1
                      THEN request_correction(o)
                      ELSE /\ attempt' = attempt + 1
                           /\ pc' = "attempt"
                           /\ obs' = o
                           /\ UNCHANGED <<state, correction_response, results, i, cur_step, polls, waiter_woken, sessions, current_session>>

\* _request_correction wakes from a sleep.  Before the last sleep it checks
\* the response slot; a correction is recorded and the step re-entered with
\* the corrected text.  An empty slot sends it to sleep again: the sleeps up
\* to the last one are taken in one step (a call arriving during a later one
\* of them has the effect of the same call arriving during this one).  After
\* the last sleep it gives up: the failure is recorded and the failed result
\* returned.
PollCorrection(fr, fs) ==
    /\ pc = "wait_correction"
    /\ UNCHANGED <<pause_event, stop_requested, config_vars, steps, passive_vars>>
    /\ IF polls < CorrectionPolls /\ Truthy(correction_response)
       THEN /\ correction_response' = None
            /\ state' = "running"
            /\ UNCHANGED <<results, i, polls, waiter_woken, sessions, current_session>>
            /\ fr # "ok" => learning /\ obs.faults < MaxFaults
            /\ fs = "ok"
            /\ IF learning
               THEN LearningLoop_record_interaction(EmptyDict, PageUrl, "", cur_step, "correction", "corrected", correction_response, fr)
               ELSE NoRecord
            /\ IF fr # "ok"
               THEN /\ pc' = "raised"
                    /\ obs' = [obs EXCEPT !.faults = @ + 1, !.raised_in = "record_correction"]
                    /\ UNCHANGED <<attempt, cur_step>>
               ELSE /\ pc' = "attempt"
                    /\ cur_step' = correction_response
                    /\ attempt' = 0
                    /\ obs' = [obs EXCEPT !.step_corrections = @ + 1, !.acted = FALSE, !.nfailed = 0]
       ELSE IF polls < CorrectionPolls
       THEN /\ polls' = CorrectionPolls
            /\ fr = "ok"
            /\ fs = "ok"
            /\ NoRecord
            /\ UNCHANGED <<state, correction_response, results, i, attempt, cur_step, pc, waiter_woken, sessions, current_session, obs>>
       ELSE /\ UNCHANGED correction_response
            /\ fr # "ok" => learning /\ obs.faults < MaxFaults
            /\ IF learning
               THEN LearningLoop_record_interaction(element_dict(NoElement), PageUrl, element_selector(NoElement), cur_step, "unknown", "failure", None, fr)
               ELSE NoRecord
            /\ IF fr # "ok"
               THEN /\ fs = "ok"
                    /\ pc' = "raised"
                    /\ state' = "running"
                    /\ obs' = [obs EXCEPT !.faults = @ + 1, !.raised_in = "record_failure"]
                    /\ UNCHANGED <<results, i, attempt, cur_step, polls, waiter_woken, sessions, current_session>>
               ELSE AfterStep(StepResult(cur_step, FALSE, attempt + 1, obs, Len(interactions') > Len(interactions), element_embeddings' # element_embeddings), "running", obs, fs)

\* The sleep between steps is over: the next loop head.
Delay(fs) ==
    /\ pc = "delay"
    /\ UNCHANGED <<ctl_vars, config_vars, steps, passive_vars>>
    /\ NoRecord
    /\ LoopHeader(i + 1, results, state, obs, sessions, current_session, fs)

\* pause()
Pause ==
    /\ pause_event' = FALSE
    /\ state' = "paused"
    /\ obs' = [obs EXCEPT !.paused_at = IF StepInFlight THEN obs.nstarted ELSE @]
    /\ UNCHANGED <<stop_requested, correction_response, config_vars, steps, results, pc, i, attempt, cur_step, polls, waiter_woken>>
    /\ UNCHANGED <<ledger_vars, index_vars, loop_vars, passive_vars>>

\* resume(): Event.set() resolves the future of a coroutine waiting at the gate.
Resume ==
    /\ pause_event' = TRUE
    /\ state' = "running"
    /\ waiter_woken' = (waiter_woken \/ pc = "gate")
    /\ obs' = [obs EXCEPT !.paused_at = -1]
    /\ UNCHANGED <<stop_requested, correction_response, config_vars, steps, results, pc, i, attempt, cur_step, polls>>
    /\ UNCHANGED <<ledger_vars, index_vars, loop_vars, passive_vars>>

\* request_stop()
RequestStop ==
    /\ stop_requested' = TRUE
    /\ pause_event' = TRUE
    /\ waiter_woken' = (waiter_woken \/ pc = "gate")
    /\ obs' = [obs EXCEPT !.gate_stop = IF pc = "gate" /\ ~waiter_woken /\ @ = -1 THEN obs.nstarted ELSE @,
                          !.stopping = @ \/ pc \notin {"idle", "done", "raised"}]
    /\ UNCHANGED <<state, correction_response, config_vars, steps, results, pc, i, attempt, cur_step, polls>>
    /\ UNCHANGED <<ledger_vars, index_vars, loop_vars, passive_vars>>

\* provide_correction(correction); the skip message passes "".
ProvideCorrection(c) ==
    /\ Truthy(c) => obs.nprovided < MaxCorrections
    /\ correction_response' = c
    /\ obs' = [obs EXCEPT !.nprovided = IF Truthy(c) THEN @ + 1 ELSE @]
    /\ UNCHANGED <<state, pause_event, stop_requested, config_vars, steps, results, pc, i, attempt, cur_step, polls, waiter_woken>>
    /\ UNCHANGED <<ledger_vars, index_vars, loop_vars, passive_vars>>

SessionFaults == {"ok", "ledger"}
AttemptOutcomes == {"ok", "browser", "storage"}

Next ==
    \/ \E s \in StepLists : ExecuteSteps(s)
    \/ \E f0 \in SessionFaults, fs \in SessionFaults : BeginRun(f0, fs)
    \/ GateWake
    \/ \E fs \in SessionFaults : StepStart(fs)
    \/ \E out \in AttemptOutcomes, fr \in RecordFaults, fs \in SessionFaults : AttemptFinish(out, fr, fs)
    \/ \E fr \in RecordFaults, fs \in SessionFaults : PollCorrection(fr, fs)
    \/ \E fs \in SessionFaults : Delay(fs)
    \/ Pause
    \/ Resume
    \/ RequestStop
    \/ \E c \in Corrections \cup {""} : ProvideCorrection(c)

Spec == Init /\ [][Next]_vars

\* The event loop runs a coroutine that is ready to run, and every sleep
\* and browser call of the run ends.
SpecLive ==
    Spec /\ WF_vars(\/ \E f0 \in SessionFaults, fs \in SessionFaults : BeginRun(f0, fs)
                    \/ GateWake
                    \/ \E fs \in SessionFaults : StepStart(fs)
                    \/ \E out \in AttemptOutcomes, fr \in RecordFaults, fs \in SessionFaults : AttemptFinish(out, fr, fs)
                    \/ \E fr \in RecordFaults, fs \in SessionFaults : PollCorrection(fr, fs)
                    \/ \E fs \in SessionFaults : Delay(fs))

\* ------------------------------------------------------------- SpecLedger
\* The learning loop driven directly: sessions, record_success,
\* record_failure, record_correction and decide_selector on two elements.

MaxSessions == 1

LoginButton == [tag_name |-> "button", text |-> Text("Login", 5), attributes |-> ("data-testid" :> "login-btn")]
PlainButton == [tag_name |-> "button", text |-> Text("Login", 5), attributes |-> EmptyDict]
LedgerElements == {LoginButton, PlainButton}
LedgerSelectors == {"[data-testid=\"login-btn\"]", "text=\"Login\""}
LedgerSteps == {"Click the Login button", "Click the Login button again"}
\* cosine similarity of two different descriptions, below or above the threshold
SimLevels == {Ratio(1, 2), Ratio(9, 10)}

\* The agent constructed and never run.
InitLedgerSpec == Init /\ max_retries = MaxRetriesArg /\ ~step_delay /\ learning

\* LearningLoop.start_session
LedgerStartSession ==
    /\ current_session = 0
    /\ Len(sessions) < MaxSessions
    /\ sessions' = start_session(sessions, 0)
    /\ current_session' = Len(sessions) + 1
    /\ session_interactions' = <<>>
    /\ UNCHANGED <<agent_vars, interactions, selector_stats, correction_mappings, index_vars, selector_history, weight_vars, decision, txn, clock, generated, located, outer, server, obs>>

\* LearningLoop.end_session
LedgerEndSession ==
    /\ current_session # 0
    /\ sessions' = end_session(sessions, current_session, session_interactions)
    /\ current_session' = 0
    /\ UNCHANGED <<agent_vars, interactions, selector_stats, correction_mappings, index_vars, session_interactions, selector_history, weight_vars, decision, txn, clock, generated, located, outer, server, obs>>

LedgerRecord(element, selector, step, outcome, correction) ==
    /\ obs.nrecorded < MaxRecords
    /\ LearningLoop_record_interaction(element, PageUrl, selector, step, "click", outcome, correction, "ok")
    /\ decision' = NoDecision
    /\ obs' = [obs EXCEPT !.nrecorded = @ + 1]
    /\ UNCHANGED <<agent_vars, sessions, current_session, weight_vars, txn, clock, generated, located, outer, server>>

\* LearningLoop.record_success
RecordSuccess(element, selector) == LedgerRecord(element, selector, "Click the Login button", "success", None)

\* LearningLoop.record_failure
RecordFailure(element, selector) == LedgerRecord(element, selector, "Click the Login button", "failure", None)

\* LearningLoop.record_correction(corrected_selector, user_correction, step_text)
RecordCorrection(element, selector, step, correction) == LedgerRecord(element, selector, step, "corrected", correction)

\* A decide_selector that counts the use of the mapping it looked up.
DecideCountingUse(element, step, sim) ==
    /\ decision' = decide_selector(element, step, PageUrl, sim)
    /\ correction_mappings' = [m \in 1..Len(correction_mappings) |->
                                  IF Like(correction_mappings[m].original_step, step)
                                  THEN [correction_mappings[m] EXCEPT !.times_applied = @ + 1]
                                  ELSE correction_mappings[m]]
    /\ UNCHANGED <<agent_vars, sessions, interactions, selector_stats, index_vars, loop_vars, weight_vars, txn, clock, generated, located, outer, server, obs>>

\* LearningLoop.decide_selector
Decide(element, step, sim) ==
    /\ decision' = decide_selector(element, step, PageUrl, sim)
    /\ UNCHANGED <<agent_vars, ledger_vars, index_vars, loop_vars, weight_vars, txn, clock, generated, located, outer, server, obs>>

NextLedger ==
    \/ LedgerStartSession
    \/ LedgerEndSession
    \/ \E e \in LedgerElements, sel \in LedgerSelectors : RecordSuccess(e, sel)
    \/ \E e \in LedgerElements, sel \in LedgerSelectors : RecordFailure(e, sel)
    \/ \E e \in LedgerElements, sel \in LedgerSelectors, st \in LedgerSteps, c \in Corrections : RecordCorrection(e, sel, st, c)
    \/ \E e \in LedgerElements, st \in LedgerSteps, sim \in SimLevels : Decide(e, st, sim)

SpecLedger == InitLedgerSpec /\ [][NextLedger]_vars

\* ------------------------------------------------------------ SpecWeights
\* AdaptiveElementMatcher: the weights under feedback events.

WeightKeys == {"history_match", "semantic_similarity", "text_match", "position_heuristic"}
FeedbackStrategies == {"history", "semantic", "text", "vision"}

\* The weight key of a strategy; None for a strategy without one.
strategy_key(strategy) ==
    CASE strategy = "history" -> "history_match"
      [] strategy = "semantic" -> "semantic_similarity"
      [] strategy = "text" -> "text_match"
      [] OTHER -> None

WeightSum(w) == w.history_match + w.semantic_similarity + w.text_match + w.position_heuristic

\* The weights w / den after the step of learning_rate 0.01 on key, clamped
\* to [0.1, 0.5], as numerators over 100 * den, before they are normalised.
stepped_weights(w, den, key, success) ==
    [k \in WeightKeys |->
        IF k # key THEN 100 * w[k]
        ELSE IF success THEN Min(50 * den, 100 * w[k] + den)
        ELSE Max(10 * den, 100 * w[k] - den)]

\* AdaptiveElementMatcher._adjust_weights: every weight divided by the total,
\* so the numerators stay and the total becomes the denominator.
AdjustWeights(strategy, success) ==
    /\ obs.nfeedback < MaxFeedback
    /\ obs' = [obs EXCEPT !.nfeedback = @ + 1]
    /\ IF strategy_key(strategy) = None
       THEN UNCHANGED <<weights, weight_den>>
       ELSE /\ weights' = stepped_weights(weights, weight_den, strategy_key(strategy), success)
            /\ weight_den' = WeightSum(weights')
    /\ UNCHANGED <<agent_vars, ledger_vars, index_vars, loop_vars, decision, txn, clock, generated, located, outer, server>>

NextWeights == \E strategy \in FeedbackStrategies, success \in BOOLEAN : AdjustWeights(strategy, success)

SpecWeights == InitLedgerSpec /\ [][NextWeights]_vars

\* -------------------------------------------------------- SpecConcurrent
\* Two sessions, each with its own ExecutionStore on one database file,
\* record interactions at the same time.  A record_interaction call is the
\* statements of its transaction; SQLite gives the write lock of the file to
\* one connection from its first INSERT to its commit.

ConcurrentOutcomes == {"success", "failure"}

\* The write lock of the database file is free for connection w.
WriteLockFree(w) == txn.writer = 0

\* ExecutionStore.create_session on connection w: one INSERT, committed.
ConnCreateSession(w) ==
    /\ txn.session[w] = 0
    /\ WriteLockFree(w)
    /\ sessions' = start_session(sessions, 0)
    /\ txn' = [txn EXCEPT !.session[w] = Len(sessions) + 1]
    /\ UNCHANGED <<agent_vars, interactions, selector_stats, correction_mappings, index_vars, loop_vars, weight_vars, decision, clock, generated, located, outer, server, obs>>

\* record_interaction(interaction, session_id) is entered on connection w:
\* sqlite3.connect, no statement yet.
ConnCall(w, element, selector, outcome) ==
    /\ txn.pc[w] = "idle"
    /\ txn.session[w] # 0
    /\ obs.nrecorded < MaxRecords
    /\ LET inter == [NoInteraction EXCEPT !.element_hash = compute_element_hash(element), !.selector_used = selector,
                                          !.step_text = "Click the Login button", !.action_type = "click",
                                          !.outcome = outcome, !.session = txn.session[w]]
           same(v) == /\ txn.pc[v] \in {"connected", "inserted", "updated"}
                      /\ txn.pending[v].element_hash = inter.element_hash
                      /\ txn.pending[v].selector_used = selector
       IN  txn' = [txn EXCEPT !.pc[w] = "connected", !.pending[w] = inter,
                              !.overlapped = @ \/ \E v \in Writers \ {w} : same(v)]
    /\ obs' = [obs EXCEPT !.nrecorded = @ + 1]
    /\ UNCHANGED <<agent_vars, ledger_vars, index_vars, loop_vars, weight_vars, decision, clock, generated, located, outer, server>>

\* INSERT INTO interactions: the statement opens the transaction and takes
\* the write lock; it waits while another connection holds the lock.
ConnInsert(w) ==
    /\ txn.pc[w] = "connected"
    /\ WriteLockFree(w)
    /\ interactions' = store_interactions(txn.pending[w])
    /\ txn' = [txn EXCEPT !.writer = w, !.pc[w] = "inserted"]
    /\ UNCHANGED <<agent_vars, sessions, selector_stats, correction_mappings, index_vars, loop_vars, weight_vars, decision, clock, generated, located, outer, server, obs>>

\* The wait for the write lock times out: sqlite3.OperationalError
\* (database is locked) leaves record_interaction, nothing is written.
ConnBusy(w) ==
    /\ txn.pc[w] = "connected"
    /\ ~WriteLockFree(w)
    /\ txn' = [txn EXCEPT !.pc[w] = "idle", !.pending[w] = NoInteraction]
    /\ UNCHANGED <<agent_vars, ledger_vars, index_vars, loop_vars, weight_vars, decision, clock, generated, located, outer, server, obs>>

\* _update_selector_stats: the upsert statement, inside the transaction.
ConnUpdateStats(w) ==
    /\ txn.pc[w] = "inserted"
    /\ selector_stats' = store_stats(txn.pending[w])
    /\ txn' = [txn EXCEPT !.pc[w] = "updated"]
    /\ UNCHANGED <<agent_vars, sessions, interactions, correction_mappings, index_vars, loop_vars, weight_vars, decision, clock, generated, located, outer, server, obs>>

\* conn.commit(); conn.close(): the write lock is released.
ConnCommit(w) ==
    /\ txn.pc[w] = "updated"
    /\ txn' = [txn EXCEPT !.writer = 0, !.pc[w] = "idle", !.pending[w] = NoInteraction]
    /\ UNCHANGED <<agent_vars, ledger_vars, index_vars, loop_vars, weight_vars, decision, clock, generated, located, outer, server, obs>>

NextConcurrent ==
    \/ \E w \in Writers : ConnCreateSession(w)
    \/ \E w \in Writers, e \in LedgerElements, sel \in LedgerSelectors, out \in ConcurrentOutcomes : ConnCall(w, e, sel, out)
    \/ \E w \in Writers : ConnInsert(w)
    \/ \E w \in Writers : ConnBusy(w)
    \/ \E w \in Writers : ConnUpdateStats(w)
    \/ \E w \in Writers : ConnCommit(w)

SpecConcurrent == InitLedgerSpec /\ [][NextConcurrent]_vars

\* ------------------------------------------------------------ SpecDecide
\* decide_selector as a function of what it reads: the Ledger's tables, the
\* Similarity Index and the generator's history are drawn from the sets
\* below, then decide_selector is called.

MaxApplied == 3

\* The element the agent looks up: {"text": target, "tag_name": ""}.
TextOnly == [tag_name |-> "", text |-> Text("Login", 5), attributes |-> EmptyDict]
\* An element the generator has no candidate for.
Blank == [tag_name |-> "div", text |-> EmptyText, attributes |-> EmptyDict]
DecideElements == {LoginButton, PlainButton, TextOnly, Blank}

\* correction_mappings: no row, or one row.
DecideMappings ==
    {<<>>} \cup {<<[original_step |-> st, corrected_selector |-> "text=\"Sign In\"", correction_text |-> c,
                    page_url_pattern |-> UrlPattern(PageUrl), times_applied |-> n]>> :
                 st \in LedgerSteps, c \in Corrections, n \in 1..MaxApplied}

\* selector_stats rows as the upsert leaves them: (attempts, successes).
StatCounts == {<<2, 2>>, <<3, 2>>, <<5, 4>>, <<3, 3>>, <<4, 4>>}
StatRow(c) == [total_attempts |-> c[1], successes |-> c[2], success_rate |-> Ratio(c[2], c[1])]
DecideStats ==
    {[k \in {<<h, sel>> : sel \in S} |-> StatRow(f[k[2]])] :
        h \in {compute_element_hash(e) : e \in DecideElements},
        S \in SUBSET LedgerSelectors,
        f \in [LedgerSelectors -> StatCounts]}

\* element_embeddings: no entry, or one entry with its outcome counts.
IndexCounts == {<<1, 1>>, <<2, 0>>, <<0, 2>>, <<3, 1>>}
DecideIndex ==
    {[k \in {} |-> None]} \cup
    {(index_element_hash(e) :> [selector |-> "text=\"Login\"", element |-> e, page_url |-> PageUrl,
                                success_count |-> c[1], failure_count |-> c[2]]) :
        e \in DecideElements, c \in IndexCounts}

InitDecide ==
    /\ InitAgent /\ max_retries = MaxRetriesArg /\ ~step_delay /\ learning
    /\ InitWeights /\ decision = NoDecision /\ txn = InitTxn /\ clock = 0 /\ generated = NoGenerated /\ located = NoLocated /\ outer = NoRun /\ server = [connected |-> TRUE, agents |-> 0, task |-> <<>>] /\ obs = InitObs
    /\ sessions = <<>>
    /\ interactions = <<>>
    /\ selector_stats \in DecideStats
    /\ correction_mappings \in DecideMappings
    /\ element_embeddings \in DecideIndex
    /\ embedding_cache = DOMAIN element_embeddings
    /\ selector_history = [k \in {} |-> None]
    /\ current_session = 0
    /\ session_interactions = <<>>

NextDecide == \E e \in DecideElements, st \in LedgerSteps, sim \in SimLevels : Decide(e, st, sim)

SpecDecide == InitDecide /\ [][NextDecide]_vars

\* ------------------------------------------------------------ observations
\* obs records what has happened, for the properties below:
\*   nstarted          steps whose execution has started (the gate passed)
\*   gate_stop         nstarted when request_stop() found the run blocked at
\*                     the pause gate (-1: it has not)
\*   stopping          request_stop() was called between the invocation of
\*                     execute_steps and its end
\*   paused_at         nstarted at the last pause() called with a step in
\*                     flight, reset to -1 by resume()
\*   final_state       the state execute_steps set at its end
\*   orig_step, step_corrections, acted, browser_failed, storage_failed
\*                     of the step in flight: its submitted text, corrections
\*                     applied, whether its action has been done, whether an
\*                     attempt failed on the page / on a storage error
\*   nfailed           failed attempts of the innermost _execute_single_step
\*   nattempts         attempts of the step of the loop, corrected texts included
\*   reran             an action was done again after it had been done
\*   faults            storage errors so far
\*   raised_in          the learning-loop call whose error left execute_steps

\* ----------------------------------------------------------- SpecGenerate
\* The selector generator behind the learning loop: outcomes recorded for
\* buttons of several attribute sets, and generate_selectors called on them.

MaxGenRecords == 2

\* Buttons with and without text, carrying a test id, a meaningful or a
\* generated class name, a data-test attribute or an empty id.
GenElements ==
    {[tag_name |-> "button", text |-> x, attributes |-> a] :
        x \in {Text("Login", 5), EmptyText},
        a \in {EmptyDict,
               "data-testid" :> "login-btn",
               "class" :> "btn-primary",
               "class" :> "css-1q2w3e",
               "data-testid" :> "login-btn" @@ "class" :> "btn-primary",
               "data-testid" :> "login-btn" @@ "class" :> "css-1q2w3e",
               "data-test" :> "login",
               "id" :> ""}}

\* IntelligentSelectorGenerator.generate_selectors(element), as
\* decide_selector calls it.
Generate(element) ==
    /\ generated' = [element |-> element, candidates |-> generate_selectors(selector_history, element), called |-> TRUE]
    /\ UNCHANGED <<agent_vars, ledger_vars, index_vars, loop_vars, weight_vars, decision, txn, clock, located, outer, server, obs>>

\* LearningLoop.record_success / record_failure for an element, with the
\* selector of one of the element's candidates.
GenRecord(element, k, outcome) ==
    /\ obs.nrecorded < MaxGenRecords
    /\ k \in 1..Len(generate_selectors(selector_history, element))
    /\ LearningLoop_record_interaction(element, PageUrl, generate_selectors(selector_history, element)[k].selector,
                                       "Click the Login button", "click", outcome, None, "ok")
    /\ decision' = NoDecision
    /\ generated' = NoGenerated
    /\ obs' = [obs EXCEPT !.nrecorded = @ + 1]
    /\ UNCHANGED <<agent_vars, sessions, current_session, weight_vars, txn, clock, located, outer, server>>

NextGenerate ==
    \/ \E e \in GenElements : Generate(e)
    \/ \E e \in GenElements, k \in 1..3, out \in ConcurrentOutcomes : GenRecord(e, k, out)

SpecGenerate == InitLedgerSpec /\ [][NextGenerate]_vars

\* ------------------------------------------------------------- SpecLocate
\* LiveExecutionAgent._find_element: the fallback chain of one call, over
\* what the learning loop, the page and the completion service answer.

\* A chain whose vision strategy lets the error of the service through.
find_element_vision_raises(confidence, on_page, common, screenshot, vision, dom) ==
    [called |-> TRUE, confidence |-> confidence, on_page |-> on_page, common |-> common,
     screenshot |-> screenshot, vision |-> vision, dom |-> dom,
     source |-> IF common = "visible" THEN "common" ELSE IF vision = "found" THEN "vision" ELSE None,
     tried |-> IF common = "visible" THEN <<"fusion", "common">> ELSE <<"fusion", "common", "vision">>,
     raised |-> IF common # "visible" /\ vision # "found" THEN "service" ELSE None]

\* _find_element(action, screenshot) for a truthy target with the learning
\* loop on.  confidence: of the decision of decide_selector; on_page: what
\* the locator of the decided selector meets; common: what the common
\* strategies meet; vision, dom: the answers of the service ("found":
\* a usable answer; "none": a well-formed answer naming no element;
\* "unparsable"; "error": the call raises).
find_element(confidence, on_page, common, screenshot, vision, dom) ==
    LET fusion_used == RatGeq(confidence, Ratio(8, 10))
        by_fusion == fusion_used /\ on_page = "visible"
        by_common == common = "visible"
        by_vision == screenshot /\ vision = "found"
        by_dom == dom = "found"
        try0 == IF fusion_used THEN <<"fusion">> ELSE <<>>
        try1 == try0 \o <<"common">>
        try2 == try1 \o (IF screenshot THEN <<"vision">> ELSE <<>>)
        try3 == try2 \o <<"dom">>
    IN  [called |-> TRUE, confidence |-> confidence, on_page |-> on_page, common |-> common,
         screenshot |-> screenshot, vision |-> vision, dom |-> dom,
         source |-> IF by_fusion THEN "fusion" ELSE IF by_common THEN "common"
                    ELSE IF by_vision THEN "vision" ELSE IF by_dom THEN "dom" ELSE None,
         tried |-> IF by_fusion THEN try0 ELSE IF by_common THEN try1 ELSE IF by_vision THEN try2 ELSE try3,
         raised |-> IF by_fusion \/ by_common \/ by_vision \/ by_dom THEN None ELSE "not_found"]

\* One call of _find_element.
Locate(confidence, on_page, common, screenshot, vision, dom) ==
    /\ located' = find_element(confidence, on_page, common, screenshot, vision, dom)
    /\ UNCHANGED <<agent_vars, ledger_vars, index_vars, loop_vars, weight_vars, decision, txn, clock, generated, outer, server, obs>>

NextLocate ==
    \E confidence \in {Ratio(3, 10), Ratio(75, 100), Ratio(8, 10), Ratio(95, 100)},
       on_page \in {"visible", "absent", "error"}, common \in {"visible", "absent"}, screenshot \in BOOLEAN,
       vision \in {"found", "none", "unparsable", "error"}, dom \in {"found", "none", "unparsable", "error"} :
        Locate(confidence, on_page, common, screenshot, vision, dom)

SpecLocate == InitLedgerSpec /\ [][NextLocate]_vars

\* -------------------------------------------------------------- SpecOuter
\* RetryExecutor.run_until_pass: the outer self-healing loop.

\* config.MAX_RETRIES
MAX_RETRIES == 20

MaxSuppliedRetries == 4

\* RetryExecutor.__init__: self.max_retries; supplied is <<>> (no argument,
\* None) or <<n>>.
executor_max_retries(supplied) == IF supplied = <<>> \/ supplied[1] = 0 THEN MAX_RETRIES ELSE supplied[1]

\* RetryExecutor(llm, path, max_retries).run_until_pass(vero_code) up to
\* the first _run_test.
RunUntilPass(supplied) ==
    /\ outer.pc \in {"none", "returned"}
    /\ outer' = [NoRun EXCEPT !.supplied = supplied, !.max_retries = executor_max_retries(supplied), !.pc = "testing"]
    /\ UNCHANGED <<agent_vars, ledger_vars, index_vars, loop_vars, weight_vars, decision, txn, clock, generated, located, server, obs>>

\* One turn of the loop from the return of _run_test: attempt_no is the
\* loop variable attempt; a pass returns, a failure before the last attempt heals and
\* tests again, the last failure falls out of the loop.
RunTest(success) ==
    /\ outer.pc = "testing"
    /\ LET attempt_no == outer.tests + 1
           heal == ~success /\ attempt_no < outer.max_retries
       IN  outer' = [outer EXCEPT !.tests = attempt_no,
                                  !.heals = IF heal THEN @ + 1 ELSE @,
                                  !.healed_after_last = heal /\ attempt_no = outer.max_retries,
                                  !.pc = IF success \/ attempt_no = outer.max_retries THEN "returned" ELSE "testing",
                                  !.returned = IF success THEN <<TRUE, outer.heals, attempt_no>>
                                               ELSE IF attempt_no = outer.max_retries THEN <<FALSE, outer.heals, outer.max_retries>>
                                               ELSE <<>>]
    /\ UNCHANGED <<agent_vars, ledger_vars, index_vars, loop_vars, weight_vars, decision, txn, clock, generated, located, server, obs>>

NextOuter ==
    \/ \E supplied \in {<<>>} \cup {<<n>> : n \in 0..MaxSuppliedRetries} : RunUntilPass(supplied)
    \/ \E success \in BOOLEAN : RunTest(success)

SpecOuter == InitLedgerSpec /\ [][NextOuter]_vars

\* ------------------------------------------------------------- SpecServer
\* live_execution_server: the start and stop messages of one transport
\* session and the execute() tasks they leave behind.

MaxAgents == 4

\* handle_start with steps: create_agent registers a new agent under the
\* session id, whatever is registered there, and execute() is started as a
\* task of its own.
HandleStart ==
    /\ server.connected
    /\ Len(server.task) < MaxAgents
    /\ server' = [server EXCEPT !.agents = Len(server.task) + 1, !.task = Append(@, "executing")]
    /\ UNCHANGED <<agent_vars, ledger_vars, index_vars, loop_vars, weight_vars, decision, txn, clock, generated, located, outer, obs>>

\* handle_stop: get_agent, request_stop() and stop() on the registered agent.
HandleStop ==
    /\ server.connected
    /\ server.agents # 0
    /\ server' = [server EXCEPT !.task[server.agents] = IF @ = "executing" THEN "stopping" ELSE @]
    /\ UNCHANGED <<agent_vars, ledger_vars, index_vars, loop_vars, weight_vars, decision, txn, clock, generated, located, outer, obs>>

\* execute() of agent a comes to its end: execute_steps returned or raised,
\* then agent.stop().  The agent stays registered.
ExecuteEnds(a) ==
    /\ a \in 1..Len(server.task)
    /\ server.task[a] \in {"executing", "stopping"}
    /\ server' = [server EXCEPT !.task[a] = "ended"]
    /\ UNCHANGED <<agent_vars, ledger_vars, index_vars, loop_vars, weight_vars, decision, txn, clock, generated, located, outer, obs>>

\* ConnectionManager.disconnect: the connection is dropped, the registered
\* agent gets request_stop() and is forgotten.
Disconnect ==
    /\ server.connected
    /\ server' = [server EXCEPT !.connected = FALSE, !.agents = 0,
                                !.task = [a \in DOMAIN @ |-> IF a = server.agents /\ @[a] = "executing" THEN "stopping" ELSE @[a]]]
    /\ UNCHANGED <<agent_vars, ledger_vars, index_vars, loop_vars, weight_vars, decision, txn, clock, generated, located, outer, obs>>

NextServer ==
    \/ HandleStart
    \/ HandleStop
    \/ \E a \in 1..MaxAgents : ExecuteEnds(a)
    \/ Disconnect

SpecServer == InitLedgerSpec /\ [][NextServer]_vars

\* ---------------------------------------------------------- SpecRetention
\* The learning loop with its retention cleanup.  Every call reads the clock
\* later than the call before it; whole days pass between calls.

MaxClock == 7
\* timedelta(days=1), in readings of the clock
Day == 2
\* LearningConfig.history_retention_days
RetentionDays == {0, 1}

\* A cutoff that never lies less than a day back.
cleanup_cutoff_floor(now, days) == now - (IF days < 1 THEN 1 ELSE days) * Day

\* cutoff = datetime.now() - timedelta(days=days)
cleanup_cutoff(now, days) == now - days * Day

\* DELETE FROM interactions WHERE timestamp < cutoff
cleanup_interactions(inters, cutoff) == SelectSeq(inters, LAMBDA r : ~(r.timestamp < cutoff))

\* DELETE FROM sessions WHERE started_at < cutoff; a deleted row keeps its
\* position, the session ids of the other rows stay what they were.
cleanup_sessions(sess, cutoff) ==
    [k \in 1..Len(sess) |-> IF sess[k].started_at < cutoff THEN [sess[k] EXCEPT !.present = FALSE] ELSE sess[k]]

NotCleaning == [obs EXCEPT !.cleaned = -1, !.removed = 0]

\* LearningLoop.start_session
RetentionStartSession ==
    /\ clock < MaxClock
    /\ current_session = 0
    /\ Len(sessions) < MaxSessions
    /\ sessions' = start_session(sessions, 0)
    /\ current_session' = Len(sessions) + 1
    /\ session_interactions' = <<>>
    /\ clock' = clock + 1
    /\ obs' = NotCleaning
    /\ UNCHANGED <<agent_vars, interactions, selector_stats, correction_mappings, index_vars, selector_history, weight_vars, decision, txn, generated, located, outer, server>>

\* LearningLoop.end_session
RetentionEndSession ==
    /\ clock < MaxClock
    /\ current_session # 0
    /\ sessions' = end_session(sessions, current_session, session_interactions)
    /\ current_session' = 0
    /\ clock' = clock + 1
    /\ obs' = NotCleaning
    /\ UNCHANGED <<agent_vars, interactions, selector_stats, correction_mappings, index_vars, session_interactions, selector_history, weight_vars, decision, txn, generated, located, outer, server>>

\* LearningLoop.record_success / record_failure
RetentionRecord(element, selector, outcome) ==
    /\ clock < MaxClock
    /\ obs.nrecorded < MaxRecords
    /\ LearningLoop_record_interaction(element, PageUrl, selector, "Click the Login button", "click", outcome, None, "ok")
    /\ decision' = NoDecision
    /\ clock' = clock + 1
    /\ obs' = [NotCleaning EXCEPT !.nrecorded = @ + 1]
    /\ UNCHANGED <<agent_vars, sessions, current_session, weight_vars, txn, generated, located, outer, server>>

\* A day passes with no call.
RetentionDayPasses ==
    /\ clock + Day <= MaxClock
    /\ clock' = clock + Day
    /\ obs' = NotCleaning
    /\ UNCHANGED <<agent_vars, ledger_vars, index_vars, loop_vars, weight_vars, decision, txn, generated, located, outer, server>>

\* LearningLoop.cleanup_old_data -> ExecutionStore.cleanup_old_data(days)
CleanupOldData(days) ==
    /\ clock < MaxClock
    /\ LET cutoff == cleanup_cutoff(clock, days)
       IN  /\ interactions' = cleanup_interactions(interactions, cutoff)
           /\ sessions' = cleanup_sessions(sessions, cutoff)
    /\ clock' = clock + 1
    /\ obs' = [obs EXCEPT !.cleaned = days, !.removed = Len(interactions) - Len(interactions')]
    /\ UNCHANGED <<agent_vars, selector_stats, correction_mappings, index_vars, loop_vars, weight_vars, decision, txn, generated, located, outer, server>>

NextRetention ==
    \/ RetentionStartSession
    \/ RetentionEndSession
    \/ \E e \in LedgerElements, sel \in LedgerSelectors, out \in ConcurrentOutcomes : RetentionRecord(e, sel, out)
    \/ RetentionDayPasses
    \/ \E d \in RetentionDays : CleanupOldData(d)

SpecRetention == InitLedgerSpec /\ [][NextRetention]_vars

\* ------------------------------------------------------------------ claims

\* C1: if request_stop() is called while the run is blocked at the pause gate
\* (pause() called, resume() not), no step execution starts after the stop:
\* the number of started steps stays what it was at the stop.
C1_NoStepAfterStopAtGate == obs.gate_stop # -1 => obs.nstarted = obs.gate_stop

\* C2: after pause() with a step in flight, the next step does not start
\* until resume() is called: as long as no resume() followed the pause(), the
\* number of started steps is what it was at the pause().
C2_NextStepWaitsForResume == obs.paused_at # -1 => obs.nstarted = obs.paused_at

\* C3: steps execute strictly sequentially: while step i is in flight (at
\* most one is), exactly the results of steps 0..i-1 have been appended, in
\* order, and the outcome of each of them has been written to the learning
\* loop (learning enabled, no storage error, at least one attempt per step).
C3_StrictlySequential ==
    (StepInFlight /\ learning /\ max_retries > 0 /\ obs.faults = 0) =>
        /\ Len(results) = i
        /\ \A k \in 1..Len(results) : results[k].step_index = k - 1 /\ results[k].ledger_written

\* C4: when the run has ended, the state it set is COMPLETED exactly if every
\* step of the submitted list has a result and every result is a success;
\* otherwise it is FAILED.
C4_CompletedOnlyIfAllSucceeded ==
    obs.final_state # None =>
        /\ obs.final_state \in {"completed", "failed"}
        /\ obs.final_state = "completed" <=> (Len(results) = Len(steps) /\ AllSucceeded(results))

\* C5: a step that failed on all retries, was corrected and then succeeded
\* was re-executed with the corrected text, and the Ledger holds a Correction
\* Mapping for the original step text with times_applied = 1.
C5_CorrectionMappingPersisted ==
    (learning /\ obs.faults = 0) =>
        \A k \in 1..Len(results) :
            (results[k].corrected /\ results[k].success) =>
                /\ results[k].step_text \in Corrections
                /\ \E m \in 1..Len(correction_mappings) :
                       /\ correction_mappings[m].original_step = results[k].original_step
                       /\ correction_mappings[m].times_applied = 1

\* C9: a storage error of the Ledger or the Similarity Index, in
\* decide_selector or while an outcome is recorded, never aborts the run
\* (execute_steps is not left by the error), does not by itself make a step fail (a failed step had an attempt
\* that failed on the page), and never makes an action that was done run again.
C9_StorageErrorIsNoData ==
    /\ obs.raised_in \notin {"record_correction", "record_failure"}
    /\ ~obs.reran
    /\ \A k \in 1..Len(results) :
           (~results[k].success /\ results[k].storage_failed) => results[k].browser_failed

\* C10: with learning enabled (no storage error, at least one attempt per
\* step), the final outcome of every step that has a result was written as an Interaction Record to the
\* Ledger and as an outcome update to the Similarity Index.
C10_EveryOutcomeWritten ==
    (learning /\ max_retries > 0 /\ obs.faults = 0) =>
        \A k \in 1..Len(results) : results[k].ledger_written /\ results[k].index_updated

\* Interaction Records of the Ledger for one (fingerprint, selector) pair.
RecordsOf(key) == {k \in 1..Len(interactions) : <<interactions[k].element_hash, interactions[k].selector_used>> = key}
SuccessesOf(key) == {k \in RecordsOf(key) : interactions[k].outcome = "success"}

\* The same correction is in the Ledger twice for the step text.
RecordedTwice(step, correction, selector) ==
    \E m, n \in 1..Len(interactions) :
        /\ m # n
        /\ \A k \in {m, n} : /\ interactions[k].outcome = "corrected"
                             /\ interactions[k].step_text = step
                             /\ interactions[k].user_correction = correction
                             /\ interactions[k].corrected_selector = selector

\* C6: once the same correction is recorded twice for a step text, the
\* Correction Mapping found for the step text has times_applied >= 2, and a
\* decide_selector call for that step text returns the correction with
\* confidence 0.95 and source learned_correction.
C6_CorrectionShortCircuit ==
    \A st \in LedgerSteps, c \in Corrections, sel \in LedgerSelectors :
        RecordedTwice(st, c, sel) =>
            /\ find_correction_for_step(correction_mappings, st, PageUrl).times_used >= 2
            /\ decision.step_text = st =>
                   /\ decision.selector = sel
                   /\ decision.confidence = Ratio(95, 100)
                   /\ decision.source = "learned_correction"

\* C7: for every (fingerprint, selector) pair with N >= 1 Interaction Records
\* of which S are successes, the Selector Statistic has total_attempts = N,
\* successes = S and success_rate = S/N, within [0, 1].
C7_StatisticIsSOverN ==
    \A key \in DOMAIN selector_stats :
        LET N == Cardinality(RecordsOf(key))
            S == Cardinality(SuccessesOf(key))
        IN  /\ N >= 1
            /\ selector_stats[key].total_attempts = N
            /\ selector_stats[key].successes = S
            /\ RatEq(selector_stats[key].success_rate, Ratio(S, N))
            /\ RatGeq(selector_stats[key].success_rate, Ratio(0, 1))
            /\ RatGeq(Ratio(1, 1), selector_stats[key].success_rate)

\* C8: after any sequence of feedback events the four weights sum to 1 and
\* each of them lies within [0.1, 0.5].
C8_WeightsNormalisedAndBounded ==
    /\ WeightSum(weights) = weight_den
    /\ \A k \in WeightKeys : /\ weights[k] >= (weight_den + 9) \div 10
                             /\ weights[k] <= weight_den \div 2

\* C11: every change of the execution state follows an edge of the state
\* machine Idle -> Running, Running <-> Paused, Running <->
\* WaitingForCorrection, Running -> Completed, Running -> Failed; so pause()
\* or resume() with no run active moves the state neither to Paused nor to
\* Running.
C11_StateFollowsEdges ==
    [][LET edges == {<<"idle", "running">>, <<"running", "paused">>, <<"paused", "running">>,
                     <<"running", "waiting_for_correction">>, <<"waiting_for_correction", "running">>,
                     <<"running", "completed">>, <<"running", "failed">>}
       IN  state' # state => <<state, state'>> \in edges]_vars

\* C12: WAITING_FOR_CORRECTION is entered when the last attempt of a step has
\* failed, and the wait is left back to RUNNING in one of two ways: a
\* correction was supplied (the step is re-entered with the corrected text),
\* or the 60 polls have elapsed and no correction was supplied, and the step
\* gets a failed result.  (Steps without a storage error.)
C12_CorrectionWaitLeaves ==
    [][obs'.faults = obs.faults =>
         /\ (state' = "waiting_for_correction" /\ pc # "wait_correction") =>
                pc = "attempt" /\ attempt = max_retries - 1
         /\ (pc = "wait_correction" /\ pc' # "wait_correction") =>
                \/ /\ Truthy(correction_response)
                   /\ pc' = "attempt"
                   /\ cur_step' = correction_response
                   /\ state' = "running"
                \/ /\ ~Truthy(correction_response)
                   /\ polls = CorrectionPolls
                   /\ Len(results') = Len(results) + 1
                   /\ ~results'[Len(results')].success]_vars

C14_NoLostIncrement ==
    txn.writer = 0 =>
        /\ \A k \in 1..Len(interactions) : <<interactions[k].element_hash, interactions[k].selector_used>> \in DOMAIN selector_stats
        /\ \A key \in DOMAIN selector_stats :
               /\ selector_stats[key].total_attempts = Cardinality(RecordsOf(key))
               /\ selector_stats[key].successes = Cardinality(SuccessesOf(key))

\* Both sessions have recorded for one pair, one of the calls made while
\* the other's transaction was under way.
C14_Witness ==
    /\ txn.writer = 0
    /\ txn.overlapped
    /\ \E key \in DOMAIN selector_stats :
           /\ selector_stats[key].total_attempts >= 2
           /\ \E m, n \in RecordsOf(key) : interactions[m].session = 1 /\ interactions[n].session = 2

\* The rows of correction_mappings a step text is looked up in (the exact
\* matches, else the LIKE matches), and the trusted rows of selector_stats
\* of a fingerprint.
MappingPool(step) ==
    LET exact == {m \in 1..Len(correction_mappings) : correction_mappings[m].original_step = step}
    IN  IF exact # {} THEN exact ELSE {m \in 1..Len(correction_mappings) : Like(correction_mappings[m].original_step, step)}
TrustedRows(h) == {k \in DOMAIN selector_stats : k[1] = h /\ selector_stats[k].total_attempts >= 3}

\* C15: decide_selector applies a strict priority.  A Correction Mapping
\* with times_applied >= 2 is returned first (confidence 0.95, source
\* learned_correction); otherwise a trusted historical selector with success
\* rate >= 0.8 is returned with source history, whatever the Similarity
\* Index and the generator say; a historical selector below the threshold
\* is never returned with source history, it is kept as a fallback
\* alternative.
C15_DecisionPriority ==
    decision # NoDecision =>
        LET pool == MappingPool(decision.step_text)
            learned == \E m \in pool : correction_mappings[m].times_applied >= 2
            rows == TrustedRows(compute_element_hash(decision.element))
            good == {k \in rows : RatGeq(selector_stats[k].success_rate, Ratio(8, 10))}
        IN  /\ learned <=> decision.source = "learned_correction"
            /\ learned => /\ decision.confidence = Ratio(95, 100)
                           /\ \E m \in pool : /\ correction_mappings[m].times_applied >= 2
                                                /\ decision.selector = correction_mappings[m].corrected_selector
            /\ (~learned /\ good # {}) <=> decision.source = "history"
            /\ decision.source = "history" =>
                   \E k \in good : /\ decision.selector = k[2]
                                    /\ decision.confidence = selector_stats[k].success_rate
                                    /\ \A n \in rows : RatGeq(selector_stats[k].success_rate, selector_stats[n].success_rate)
            /\ (decision.source = "alternative" /\ rows # {}) =>
                   \E a \in 1..Len(decision.alternatives), k \in rows : decision.alternatives[a].selector = k[2]

\* A decision taken from a mapping applied twice although a trusted
\* historical selector with rate >= 0.8 and a Similarity Index entry exist.
C15_Witness ==
    /\ decision.source = "learned_correction"
    /\ \E k \in TrustedRows(compute_element_hash(decision.element)) : RatGeq(selector_stats[k].success_rate, Ratio(8, 10))
    /\ DOMAIN element_embeddings # {}

\* C16: a decision with source semantic_match is taken only from a similar
\* element whose success rate is >= the success-rate threshold 0.8 (and
\* whose similarity is >= the similarity threshold): an entry of the
\* Similarity Index with a lower success rate never wins over the generated
\* candidate.
C16_SemanticMatchIsTrusted ==
    decision.source = "semantic_match" =>
        \E h \in DOMAIN element_embeddings :
            /\ element_embeddings[h].selector = decision.selector
            /\ element_embeddings[h].success_count + element_embeddings[h].failure_count > 0
            /\ RatGeq(Ratio(element_embeddings[h].success_count, element_embeddings[h].success_count + element_embeddings[h].failure_count), Ratio(8, 10))

C18_CleanupKeepsStatistics ==
    [][obs'.cleaned # -1 =>
         /\ selector_stats' = selector_stats
         /\ obs'.cleaned = 0 => interactions' = <<>>]_vars

\* A 0-day cleanup that removed records while statistics about them exist.
C18_Witness ==
    /\ obs.cleaned = 0
    /\ obs.removed >= 2
    /\ DOMAIN selector_stats # {}

\* C19: a run that entered its loop and is not stopped ends with exactly one StepResult per
\* submitted step, in order, the result at position k carrying step_index k
\* (counted from 0) and the step submitted there; a failed step does not
\* end the run.  on_step_complete is called right after each append, once
\* per result.
C19_OneResultPerStep ==
    (pc \in {"done", "raised"} /\ ~stop_requested /\ obs.raised_in # "start_session") =>
        /\ Len(results) = Len(steps)
        /\ \A k \in 1..Len(results) :
               /\ results[k].step_index = k - 1
               /\ results[k].original_step = steps[k]

\* The Selector Statistics of a fingerprint with at least MinAttempts attempts.
EligibleRows(h) == {k \in DOMAIN selector_stats : k[1] = h /\ selector_stats[k].total_attempts >= MinAttempts}

\* C20: the best-selector lookup returns nothing when no selector of the
\* fingerprint has 3 attempts; otherwise it returns a selector with at
\* least 3 attempts that none of the others with at least 3 attempts beats
\* on success rate, nor, at equal success rate, on attempts.  A decision
\* taken from the history is such a selector.
C20_BestSelectorLookup ==
    /\ \A e \in DecideElements :
          LET h == compute_element_hash(e)
              b == get_best_selector_for_element(selector_stats, h)
              row == selector_stats[<<h, b.selector>>]
          IN  /\ b.found <=> EligibleRows(h) # {}
              /\ b.found =>
                    /\ <<h, b.selector>> \in EligibleRows(h)
                    /\ b.success_rate = row.success_rate
                    /\ \A n \in EligibleRows(h) :
                          /\ RatGeq(row.success_rate, selector_stats[n].success_rate)
                          /\ RatEq(row.success_rate, selector_stats[n].success_rate) =>
                                row.total_attempts >= selector_stats[n].total_attempts
    /\ decision.source = "history" =>
          <<compute_element_hash(decision.element), decision.selector>> \in EligibleRows(compute_element_hash(decision.element))

\* A decision from the history with a selector of 2 attempts and success
\* rate 1 passed over, and a selector of 3 attempts passed over for one of
\* 4 attempts at the same success rate.
C20_Witness ==
    LET h == compute_element_hash(decision.element)
        mine == <<h, decision.selector>>
    IN  /\ decision.source = "history"
        /\ \E k \in DOMAIN selector_stats :
              /\ k[1] = h /\ k # mine
              /\ \/ selector_stats[k].total_attempts < MinAttempts /\ RatGt(selector_stats[k].success_rate, selector_stats[mine].success_rate)
                 \/ /\ selector_stats[k].total_attempts >= MinAttempts
                    /\ selector_stats[k].total_attempts < selector_stats[mine].total_attempts
                    /\ RatEq(selector_stats[k].success_rate, selector_stats[mine].success_rate)

\* C21: for an element with no history, generate_selectors returns its
\* candidates in descending score order; when the element bears a test-id
\* attribute the first candidate has strategy test-id and score >= 0.95;
\* for the Login button with data-testid login-btn the top selector is
\* [data-testid="login-btn"], scored above the top candidate of the same
\* button carrying only a class name.
C21_CleanElementRanking ==
    (generated.called /\ selector_history = EmptyDict) =>
        LET c == generated.candidates
            attrs == generated.element.attributes
            class_only == generate_selectors(selector_history, [LoginButton EXCEPT !.attributes = "class" :> "btn-primary"])
        IN  /\ \A k \in 1..(Len(c) - 1) : RatGeq(c[k].score, c[k + 1].score)
            /\ (\E n \in 1..Len(TestIdAttrs) : TestIdAttrs[n] \in DOMAIN attrs) =>
                  c # <<>> /\ c[1].strategy = "test_id" /\ RatGeq(c[1].score, Ratio(95, 100))
            /\ generated.element = LoginButton =>
                  /\ c[1].selector = "[data-testid=\"login-btn\"]"
                  /\ RatGt(c[1].score, class_only[1].score)

\* generate_selectors was called on the Login button with its test id, no
\* outcome having been recorded.
C21_Witness ==
    /\ generated.called /\ selector_history = EmptyDict
    /\ generated.element = LoginButton
    /\ Len(generated.candidates) >= 3

\* C22: each fingerprint the engine uses as a key (Ledger, Similarity Index,
\* generator history) is a function only of the tag name, the first 50
\* characters of the text and the stable attributes: an element that agrees
\* on these with the element generate_selectors was called on has the same
\* three fingerprints, whatever class names the two carry.
C22_FingerprintIgnoresIncidental ==
    generated.called =>
        \A e \in GenElements :
            LET g == generated.element
                stable == {StoreHashAttrs[n] : n \in 1..Len(StoreHashAttrs)}
                agree == /\ e.tag_name = g.tag_name
                         /\ Prefix(e.text, 50) = Prefix(g.text, 50)
                         /\ \A a \in stable : Get(e.attributes, a, None) = Get(g.attributes, a, None)
            IN  agree => /\ compute_element_hash(e) = compute_element_hash(g)
                         /\ index_element_hash(e) = index_element_hash(g)
                         /\ generator_element_hash(e) = generator_element_hash(g)

\* C23: a stop requested at any moment after execute_steps was invoked
\* (during start-up and session creation, while a step is in flight, or
\* between two steps) is not lost: no step starts after it, the step in
\* flight being the last one.
C23_StopNeverLost == [][obs.stopping => obs'.nstarted = obs.nstarted]_vars

\* C24: after request_stop() was called on a run, and unless pause() is
\* called again afterwards, execute_steps eventually returns with the agent
\* in COMPLETED or FAILED.
C24_StopEndsRun ==
    obs.stopping ~> (\/ pc = "done" /\ obs.final_state \in {"completed", "failed"}
                     \/ ~pause_event)

\* C25: when the learning loop records an outcome for an element (the
\* generator history of the element's Ledger fingerprint changes), the
\* Similarity Entry of that element exists afterwards and its success and
\* failure counters together have grown by exactly one.
C25_IndexCountersFollowOutcome ==
    [][\A key \in DOMAIN selector_history' :
          (key \notin DOMAIN selector_history \/ selector_history'[key] # selector_history[key]) =>
              \A e \in GenElements :
                  compute_element_hash(e) = key[1] =>
                      LET h == index_element_hash(e)
                          total(entries) == IF h \in DOMAIN entries THEN entries[h].success_count + entries[h].failure_count ELSE 0
                      IN  /\ h \in DOMAIN element_embeddings'
                          /\ total(element_embeddings') = total(element_embeddings) + 1]_vars

\* C26: once the learning loop has recorded an outcome for an element with
\* selector s, generate_selectors for that element scores the candidate
\* with selector s as 0.7 * base + 0.3 * success_rate and gives it the
\* recorded success rate as stability score.
C26_HistoryBlend ==
    generated.called =>
        LET c == generated.candidates
            clean == generate_selectors(EmptyDict, generated.element)
            h == compute_element_hash(generated.element)
        IN  \A k \in 1..Len(c) : \A n \in 1..Len(clean) :
                (clean[n].selector = c[k].selector /\ <<h, c[k].selector>> \in DOMAIN selector_history) =>
                    LET rec == selector_history[<<h, c[k].selector>>]
                        rate == Ratio(rec.successes, rec.attempts)
                    IN  /\ RatEq(c[k].stability_score, rate)
                        /\ RatEq(c[k].score, RatAdd(RatMul(clean[n].score, Ratio(7, 10)), RatMul(rate, Ratio(3, 10))))

\* C27: indexing is an upsert keyed by fingerprint: when the learning loop
\* has recorded an outcome for an element with selector s (index_element
\* was called with them), the Similarity Entry of the element's fingerprint
\* carries selector s, also when the element was indexed before with
\* another selector.
C27_IndexUpsertsSelector ==
    [][\A key \in DOMAIN selector_history' :
          (key \notin DOMAIN selector_history \/ selector_history'[key] # selector_history[key]) =>
              \A e \in GenElements :
                  compute_element_hash(e) = key[1] =>
                      /\ index_element_hash(e) \in DOMAIN element_embeddings'
                      /\ element_embeddings'[index_element_hash(e)].selector = key[2]]_vars

\* C28: a Correction Mapping recorded for a step text on one page-URL
\* pattern is not returned by the correction lookup, nor applied by
\* decide_selector, for that step text on a page of another URL pattern
\* (here the step of the latest decision, taken to the page /settings).
C28_CorrectionKeyedByPage ==
    decision # NoDecision =>
        LET other == <<"app.test", "/settings", "">>
            here == {m \in 1..Len(correction_mappings) : correction_mappings[m].page_url_pattern = UrlPattern(other)}
        IN  here = {} =>
                /\ ~find_correction_for_step(correction_mappings, decision.step_text, other).found
                /\ \A sim \in SimLevels :
                       decide_selector(decision.element, decision.step_text, other, sim).source # "learned_correction"

\* C29: element location follows the ordered chain fusion suggestion (only
\* at confidence >= 0.8), common strategies, vision, DOM ranking: the
\* strategies are tried in that order, each only when every earlier one
\* produced no element, the element comes from the last one tried, and an
\* error or unparsable answer of the service at the vision step makes the
\* chain go on to the DOM step instead of failing.
C29_FallbackChain ==
    located.called =>
        LET chain == <<"fusion", "common", "vision", "dom">>
            pos(x) == CHOOSE n \in 1..4 : chain[n] = x
            t == located.tried
            produced(x) == CASE x = "fusion" -> located.on_page = "visible"
                             [] x = "common" -> located.common = "visible"
                             [] x = "vision" -> located.vision = "found"
                             [] x = "dom" -> located.dom = "found"
        IN  /\ \A k \in 1..Len(t) : t[k] \in {"fusion", "common", "vision", "dom"}
            /\ \A k \in 1..(Len(t) - 1) : pos(t[k]) < pos(t[k + 1]) /\ ~produced(t[k])
            /\ \A k \in 1..Len(t) : t[k] = "fusion" => RatGeq(located.confidence, Ratio(8, 10))
            /\ located.source # None => t # <<>> /\ located.source = t[Len(t)] /\ produced(located.source) /\ located.raised = None
            /\ located.source = None => located.raised = "not_found" /\ t[Len(t)] = "dom" /\ ~produced("dom")
            /\ \A k \in 1..Len(t) : (t[k] = "vision" /\ located.vision \in {"unparsable", "error"}) => k < Len(t) /\ t[k + 1] = "dom"

\* The vision service failed and the element came from the DOM ranking.
C29_Witness ==
    /\ located.called
    /\ located.vision = "error"
    /\ located.tried = <<"fusion", "common", "vision", "dom">>
    /\ located.source = "dom"

\* C30: by the time a run ends (completed, failed, stopped or with an
\* error raised out of execute_steps after start_session returned), every
\* session that start_session created is finalised by end_session.
C30_SessionsFinalised ==
    (pc \in {"done", "raised"} /\ obs.raised_in \notin {"start_session", "end_session"}) =>
        \A k \in 1..Len(sessions) : sessions[k].present => sessions[k].ended

\* C31: a skip (an empty correction supplied during the correction wait)
\* ends the wait at the next check of the response slot, before the 60
\* polls have elapsed: the coroutine does not go back to sleep in
\* _request_correction.
C31_SkipEndsWait ==
    [][(pc = "wait_correction" /\ correction_response = "" /\ polls < CorrectionPolls /\ polls' # polls) =>
           pc' # "wait_correction"]_vars

\* C32: a correction is applied to at most one step.  A correction wait
\* begins with the response slot emptied, so a correction supplied outside
\* a wait is discarded there; a corrected text becomes the text of a step
\* only out of a correction wait, from the slot, and the slot is emptied
\* as it is read.  (In a wait: the coroutine is inside _request_correction.)
C32_CorrectionUsedOnce ==
    [][/\ (pc # "wait_correction" /\ pc' = "wait_correction") => correction_response' = None
       /\ (pc = "wait_correction" /\ pc' = "attempt") =>
              /\ Truthy(correction_response)
              /\ cur_step' = correction_response
              /\ correction_response' = None
       /\ (cur_step' \in Corrections /\ cur_step' # cur_step) => pc = "wait_correction"]_vars

\* A correction was supplied and never applied, and a correction wait has
\* just begun with the slot empty.
C32_Witness ==
    /\ obs.nprovided = 1
    /\ pc = "wait_correction" /\ polls = 1
    /\ correction_response = None
    /\ obs.step_corrections = 0
    /\ \A k \in 1..Len(results) : ~results[k].corrected

\* C33: run_until_pass runs the test at most max_retries times for the
\* max_retries the caller supplied (at most 20 times when none was
\* supplied); it returns (True, code, k) at the first passing attempt k,
\* heals only after a failed attempt that is not the last, and otherwise
\* returns (False, last healed code, max_retries).
C33_OuterRetryBudget ==
    LET budget == IF outer.supplied = <<>> THEN MAX_RETRIES ELSE outer.supplied[1]
    IN  /\ outer.tests <= budget
        /\ outer.heals <= outer.tests
        /\ ~outer.healed_after_last
        /\ outer.pc = "returned" =>
               IF outer.returned[1]
               THEN outer.returned = <<TRUE, outer.heals, outer.tests>> /\ outer.heals = outer.tests - 1
               ELSE outer.returned = <<FALSE, outer.heals, budget>> /\ outer.tests = budget

\* C34: while a run is in its loop the reported state agrees with the
\* pause gate: PAUSED only while the gate is closed, never RUNNING while
\* the gate is closed.
C34_StateAgreesWithGate ==
    pc \in {"gate", "title", "attempt", "wait_correction", "delay"} =>
        /\ state = "paused" => ~pause_event
        /\ state = "running" => pause_event

\* C35: a step whose text parses to no known action (action type UNKNOWN)
\* is never reported as successful.
C35_UnknownActionNotSuccess ==
    \A k \in 1..Len(results) :
        parse_step(results[k].step_text).action_type = "unknown" => ~results[k].success

\* C36: the execution of one step terminates: while it keeps failing it
\* makes at most max_retries * (1 + c) attempts, c the corrections
\* supplied for it so far; a correction wait that ends with no correction
\* gives the failed result at once; with max_retries = 0 the step gets a
\* failed result without any attempt.
C36_StepAttemptsBounded ==
    /\ [](obs.nattempts <= max_retries * (1 + obs.step_corrections))
    /\ [][/\ (pc = "wait_correction" /\ pc' # "wait_correction" /\ ~Truthy(correction_response)) =>
                  (Len(results') = Len(results) + 1 /\ ~results'[Len(results')].success)
          /\ (pc = "title" /\ pc' # "title" /\ max_retries = 0) =>
                  (Len(results') = Len(results) + 1 /\ ~results'[Len(results')].success /\ obs'.nattempts = 0)]_vars

\* C37: a finalised session has successful_steps + failed_steps +
\* corrected_steps <= total_steps: each step of the run counts in at most
\* one of the three.  (Runs without a storage error.)
C37_SessionCountsWithinSteps ==
    \A k \in 1..Len(sessions) :
        (sessions[k].ended /\ obs.faults = 0) =>
            sessions[k].successful_steps + sessions[k].failed_steps + sessions[k].corrected_steps <= sessions[k].total_steps

\* C38: with no retention cleanup, for every (fingerprint, selector) pair
\* the Selector Statistic's total_attempts is the number of Interaction
\* Records of the pair and its successes the number of those with outcome
\* success; every record has its statistic, and a record that carries a
\* correction and a corrected selector has its Correction Mapping: the
\* three are written together or not at all.
C38_LedgerWrittenTogether ==
    /\ \A k \in 1..Len(interactions) :
           /\ <<interactions[k].element_hash, interactions[k].selector_used>> \in DOMAIN selector_stats
           /\ (Truthy(interactions[k].user_correction) /\ Truthy(interactions[k].corrected_selector)) =>
                  \E m \in 1..Len(correction_mappings) : correction_mappings[m].original_step = interactions[k].step_text
    /\ \A key \in DOMAIN selector_stats :
           /\ selector_stats[key].total_attempts = Cardinality(RecordsOf(key))
           /\ selector_stats[key].successes = Cardinality(SuccessesOf(key))
    /\ Len(correction_mappings) > 0 => Len(interactions) > 0

\* A run whose first step was recorded and whose record_failure for the
\* second was refused by the Ledger: nothing of the failure is stored.
C38_Witness ==
    /\ pc = "raised" /\ obs.raised_in = "record_failure"
    /\ Len(interactions) = 1
    /\ interactions[1].outcome = "success"
    /\ \E key \in DOMAIN selector_stats : selector_stats[key].total_attempts = 1

\* C39: for one transport session at most one agent is executing steps
\* (with no stop requested of it), and while the session is connected every
\* such agent is the one registered for the session, the one the pause,
\* resume, stop and correct messages reach.
C39_OneReachableAgent ==
    LET executing == {a \in 1..Len(server.task) : server.task[a] = "executing"}
    IN  /\ Cardinality(executing) <= 1
        /\ server.connected => \A a \in executing : a = server.agents

====
